---------------------------- MODULE Spec2Model ----------------------------
(***************************************************************************)
(* Local report storage and aggregation layer of the time tracker:         *)
(* the IndexedDB wrapper (src/src/lib/db.ts) and the report repository     *)
(* built on it (src/src/lib/report-db.ts).                                 *)
(*                                                                         *)
(* Strings that are compared, concatenated or used as primary keys are     *)
(* modelled as sequences of UTF-16 code units, the order IndexedDB uses to *)
(* compare string keys.                                                    *)
(***************************************************************************)
EXTENDS Integers, Sequences, FiniteSets, TLC

VARIABLES
    stores,     \* store name -> set of records held by the object store
    last,       \* outcome of the operation that settled most recently
    upd,        \* update() calls in flight: updater -> its position and captures
    cleanup,    \* the cleanupOldReports() call in flight
    db,         \* IndexedDB.db : the connection the handle references, or NoDb
    live,       \* connections opened by indexedDB.open and not closed since
    calls,      \* connect() calls: caller -> its position and resolved connection
    opened,     \* number of connections opened so far (names the next one)
    call,       \* the fullTextSearch() call in flight: its arguments and position
    obs,        \* observe(): the store objects it patched and the callback's invocations
    doc,        \* the document the caller holds from exportDatabase(), or NoDoc
    imp,        \* the importReports() call in flight: its position, argument and history
    flow,       \* handleGenerateReport() runs: flow -> its position and captures
    timer       \* TimerSystem: its popup state and the completions seen since reset

vars == <<stores, last, upd, cleanup, db, live, calls, opened, call, obs, doc,
          imp, flow, timer>>

----------------------------------------------------------------------------
(* Bounds of the model *)

\* most records an object store holds in the model
MaxRecords == 3
\* number of concurrent update() calls
NumUpdaters == 2
\* number of callers of connect()/initialize()
NumCallers == 2
\* most connections opened over a behaviour
MaxOpens == 3
\* number of concurrent runs of the report-generation flow
NumFlows == 2
\* most resets of the timers over a behaviour
MaxResets == 2
\* largest value of the stored work duration
MaxDuration == 1

----------------------------------------------------------------------------
(* Strings as sequences of UTF-16 code units *)

MAX_CHAR == 65535

Digit(n) == 48 + n

\* "-"
Dash == <<45>>

\* decimal digits of n, left-padded with "0" to the given width (padStart / ISO fields)
RECURSIVE PadNum(_, _)
PadNum(n, width) ==
    IF width = 0 THEN <<>>
    ELSE Append(PadNum(n \div 10, width - 1), Digit(n % 10))

Min2(a, b) == IF a < b THEN a ELSE b

\* a is a prefix of s (String.prototype.startsWith)
StartsWith(s, a) ==
    /\ Len(a) <= Len(s)
    /\ \A i \in 1..Len(a) : s[i] = a[i]

\* IndexedDB key order on strings: code unit by code unit, a proper prefix first
KeyLess(a, b) ==
    \E i \in 1..(Min2(Len(a), Len(b)) + 1) :
        /\ \A j \in 1..(i - 1) : a[j] = b[j]
        /\ \/ i > Len(a) /\ i <= Len(b)
           \/ i <= Len(a) /\ i <= Len(b) /\ a[i] < b[i]

----------------------------------------------------------------------------
(* Key ranges: IndexedDB.createRange *)

KeyRange(lower, upper, lowerOpen, upperOpen) ==
    [lower |-> lower, upper |-> upper, lowerOpen |-> lowerOpen, upperOpen |-> upperOpen,
     hasLower |-> TRUE, hasUpper |-> TRUE]

\* IDBKeyRange.upperBound(upper, true)
LessThanRange_inclusive(upper) ==
    [lower |-> <<>>, upper |-> upper, lowerOpen |-> FALSE, upperOpen |-> FALSE,
     hasLower |-> FALSE, hasUpper |-> TRUE]

LessThanRange(upper) ==
    [lower |-> <<>>, upper |-> upper, lowerOpen |-> FALSE, upperOpen |-> TRUE,
     hasLower |-> FALSE, hasUpper |-> TRUE]

\* the prefix range with the sentinel left out: nothing but the prefix itself fits
PrefixRange_noSentinel(prefix) ==
    KeyRange(prefix, prefix, FALSE, FALSE)

\* IDBKeyRange.bound(prefix, prefix + MAX_CHAR, false, true)
PrefixRange(prefix) ==
    KeyRange(prefix, prefix \o <<MAX_CHAR>>, FALSE, TRUE)

\* the unbounded range: openCursor(undefined)
AllKeys ==
    [lower |-> <<>>, upper |-> <<>>, lowerOpen |-> FALSE, upperOpen |-> FALSE,
     hasLower |-> FALSE, hasUpper |-> FALSE]

InRange(range, key) ==
    /\ range.hasLower =>
          \/ KeyLess(range.lower, key)
          \/ ~range.lowerOpen /\ key = range.lower
    /\ range.hasUpper =>
          \/ KeyLess(key, range.upper)
          \/ ~range.upperOpen /\ key = range.upper


----------------------------------------------------------------------------
(* Maps with insertion order (JavaScript Map): sequences of [k, v] entries *)

MapHas(m, k) == \E i \in 1..Len(m) : m[i].k = k

MapIndex(m, k) == CHOOSE i \in 1..Len(m) : m[i].k = k

\* map.get(k) || dflt
MapGet(m, k, dflt) == IF MapHas(m, k) THEN m[MapIndex(m, k)].v ELSE dflt

\* map.set(k, v): an existing entry keeps its place, a new one goes last
MapSet(m, k, v) ==
    IF MapHas(m, k)
    THEN [m EXCEPT ![MapIndex(m, k)] = [k |-> k, v |-> v]]
    ELSE Append(m, [k |-> k, v |-> v])

----------------------------------------------------------------------------
(* Report data: the three views of one report *)

\* the bare quotient value / total, without the factor 100
Percent_unscaled(value, total) == [num |-> value, den |-> total]

\* (value / total) * 100, kept as the exact fraction 100 * value / total
Percent(value, total) == [num |-> 100 * value, den |-> total]

\* an insertion that puts the new element before the elements of equal count
RECURSIVE InsertByCount_tiesReversed(_, _)
InsertByCount_tiesReversed(sorted, a) ==
    IF sorted = <<>> THEN <<a>>
    ELSE IF Head(sorted).count > a.count
         THEN <<Head(sorted)>> \o InsertByCount_tiesReversed(Tail(sorted), a)
         ELSE <<a>> \o sorted

\* Array.prototype.sort((a, b) => b.count - a.count): stable, count descending
RECURSIVE InsertByCount(_, _)
InsertByCount(sorted, a) ==
    IF sorted = <<>> THEN <<a>>
    ELSE IF Head(sorted).count >= a.count
         THEN <<Head(sorted)>> \o InsertByCount(Tail(sorted), a)
         ELSE <<a>> \o sorted

RECURSIVE SortByCountDesc(_)
SortByCountDesc(activities) ==
    IF activities = <<>> THEN <<>>
    ELSE InsertByCount(SortByCountDesc(SubSeq(activities, 1, Len(activities) - 1)),
                       activities[Len(activities)])

\* activityCounts of generateReportData: occurrences of each activity name
RECURSIVE CountActivities(_, _)
CountActivities(counts, names) ==
    IF names = <<>> THEN counts
    ELSE CountActivities(MapSet(counts, Head(names), MapGet(counts, Head(names), 0) + 1),
                         Tail(names))

EntriesAsActivities(m) == [i \in 1..Len(m) |-> [activity |-> m[i].k, count |-> m[i].v]]

RECURSIVE SumLengths(_)
SumLengths(processedData) ==
    IF processedData = <<>> THEN 0
    ELSE Len(Head(processedData).activities) + SumLengths(Tail(processedData))

generateReportData(processedData) ==
    LET totalActivities == SumLengths(processedData)
        pieChart == [i \in 1..Len(processedData) |->
                        [name |-> processedData[i].category,
                         value |-> Len(processedData[i].activities)]]
    IN [pieChart |-> pieChart,
        quickReport |-> [i \in 1..Len(pieChart) |->
                            [category |-> pieChart[i].name,
                             percent |-> Percent(pieChart[i].value, totalActivities)]],
        detailedReport |-> [i \in 1..Len(processedData) |->
                            [category |-> processedData[i].category,
                             activities |-> SortByCountDesc(EntriesAsActivities(
                                 CountActivities(<<>>, processedData[i].activities)))]]]

\* the pie loop with categoryTotals.set(item.name, item.value): the last slice wins
RECURSIVE AddPieChart_lastWins(_, _)
AddPieChart_lastWins(acc, pieChart) ==
    IF pieChart = <<>> THEN acc
    ELSE LET item == Head(pieChart)
         IN AddPieChart_lastWins(
                [acc EXCEPT
                    !.categoryTotals = MapSet(@, item.name, item.value),
                    !.grandTotal = @ + item.value],
                Tail(pieChart))

\* first loop of mergeReportData, pie part: per-category totals and the grand total
RECURSIVE AddPieChart(_, _)
AddPieChart(acc, pieChart) ==
    IF pieChart = <<>> THEN acc
    ELSE LET item == Head(pieChart)
         IN AddPieChart(
                [acc EXCEPT
                    !.categoryTotals =
                        MapSet(@, item.name, MapGet(@, item.name, 0) + item.value),
                    !.grandTotal = @ + item.value],
                Tail(pieChart))

\* the activity loop with activityMap.set(activity, count): the last count wins
RECURSIVE AddActivities_lastWins(_, _)
AddActivities_lastWins(activityMap, activities) ==
    IF activities = <<>> THEN activityMap
    ELSE LET a == Head(activities)
         IN AddActivities_lastWins(MapSet(activityMap, a.activity, a.count),
                                   Tail(activities))

\* inner loop of the detail part: activityMap.set(activity, current + count)
RECURSIVE AddActivities(_, _)
AddActivities(activityMap, activities) ==
    IF activities = <<>> THEN activityMap
    ELSE LET a == Head(activities)
         IN AddActivities(
                MapSet(activityMap, a.activity, MapGet(activityMap, a.activity, 0) + a.count),
                Tail(activities))

\* the detail loop entering a category only when it lists an activity
RECURSIVE AddDetailedReport_skipsEmpty(_, _)
AddDetailedReport_skipsEmpty(acc, detailedReport) ==
    IF detailedReport = <<>> THEN acc
    ELSE LET detail == Head(detailedReport)
             current == MapGet(acc.categoryActivities, detail.category, <<>>)
         IN AddDetailedReport_skipsEmpty(
                IF detail.activities = <<>> THEN acc
                ELSE [acc EXCEPT !.categoryActivities =
                        MapSet(@, detail.category,
                               AddActivities(current, detail.activities))],
                Tail(detailedReport))

\* first loop of mergeReportData, detail part: per-category activity maps
RECURSIVE AddDetailedReport(_, _)
AddDetailedReport(acc, detailedReport) ==
    IF detailedReport = <<>> THEN acc
    ELSE LET detail == Head(detailedReport)
             current == MapGet(acc.categoryActivities, detail.category, <<>>)
         IN AddDetailedReport(
                [acc EXCEPT !.categoryActivities =
                    MapSet(@, detail.category, AddActivities(current, detail.activities))],
                Tail(detailedReport))

RECURSIVE AccumulateReports(_, _)
AccumulateReports(acc, reportDataArray) ==
    IF reportDataArray = <<>> THEN acc
    ELSE AccumulateReports(
            AddDetailedReport(AddPieChart(acc, Head(reportDataArray).pieChart),
                              Head(reportDataArray).detailedReport),
            Tail(reportDataArray))

mergeReportData(reportDataArray) ==
    LET acc == AccumulateReports(
                   [categoryTotals |-> <<>>, categoryActivities |-> <<>>, grandTotal |-> 0],
                   reportDataArray)
        totals == acc.categoryTotals
        details == acc.categoryActivities
    IN [pieChart |-> [i \in 1..Len(totals) |-> [name |-> totals[i].k, value |-> totals[i].v]],
        quickReport |-> [i \in 1..Len(totals) |->
                            [category |-> totals[i].k,
                             percent |-> Percent(totals[i].v, acc.grandTotal)]],
        detailedReport |-> [i \in 1..Len(details) |->
                            [category |-> details[i].k,
                             activities |-> SortByCountDesc(
                                                EntriesAsActivities(details[i].v))]]]

----------------------------------------------------------------------------
(* Records of the two stores *)

DAILY_REPORTS_STORE == "dailyReports"
YEARLY_REPORTS_STORE == "yearlyReports"
StoreNames == {DAILY_REPORTS_STORE, YEARLY_REPORTS_STORE}

\* the result of a read that found nothing
Undefined == [undefined |-> TRUE]

\* "Daily Report "
DailyTitlePrefix == <<68, 97, 105, 108, 121, 32, 82, 101, 112, 111, 114, 116, 32>>
\* "Annual Report "
AnnualTitlePrefix == <<65, 110, 110, 117, 97, 108, 32, 82, 101, 112, 111, 114, 116, 32>>

\* Date.prototype.toISOString().split("T")[0] of a date given by its UTC fields
toISODate(date) ==
    PadNum(date.y, 4) \o Dash \o PadNum(date.m, 2) \o Dash \o PadNum(date.d, 2)

\* the dailyReport literal of handleGenerateReport
DailyReportOf(dateString, data) ==
    [id |-> dateString, date |-> dateString,
     title |-> DailyTitlePrefix \o dateString, data |-> data]

\* the yearlyReport literal of generateYearlyReport
YearlyReportOf(year, data) ==
    [id |-> year, year |-> year, title |-> AnnualTitlePrefix \o year, data |-> data]

\* categorised activities as handleGenerateReport passes them to generateReportData
ProcessedOne == <<[category |-> "Work", activities |-> <<"coding">>]>>
ProcessedTwo ==
    <<[category |-> "Work", activities |-> <<"email", "coding", "email">>],
      [category |-> "Rest", activities |-> <<"nap">>]>>

DataSet == { generateReportData(ProcessedOne), generateReportData(ProcessedTwo) }

Dates ==
    { [y |-> 2023, m |-> 12, d |-> 31], [y |-> 2024, m |-> 1, d |-> 15],
      [y |-> 2024, m |-> 1, d |-> 31], [y |-> 2024, m |-> 2, d |-> 1] }

DailyIds == { toISODate(date) : date \in Dates }
Years == { PadNum(date.y, 4) : date \in Dates }
YearMonths == { PadNum(date.y, 4) \o Dash \o PadNum(date.m, 2) : date \in Dates }

DailyItems == { DailyReportOf(id, data) : id \in DailyIds, data \in DataSet }
YearlyItems ==
    { YearlyReportOf(year, mergeReportData(<<generateReportData(ProcessedTwo)>>)) :
        year \in Years }

ItemsOf(storeName) == IF storeName = DAILY_REPORTS_STORE THEN DailyItems ELSE YearlyItems
KeysOf(storeName) == IF storeName = DAILY_REPORTS_STORE THEN DailyIds ELSE Years

----------------------------------------------------------------------------
(* Object stores: what one IndexedDB request does to a store's contents *)

\* keyPath: "id"
KeyOf(item) == item.id

HasKey(S, key) == \E r \in S : KeyOf(r) = key

\* a lookup that ignores the key
StoreGet_anyRecord(S, key) == IF S # {} THEN CHOOSE r \in S : TRUE ELSE Undefined

\* store.get(key)
StoreGet(S, key) == IF HasKey(S, key) THEN CHOOSE r \in S : KeyOf(r) = key ELSE Undefined

\* store.put(item)
StorePut(S, item) == { r \in S : KeyOf(r) # KeyOf(item) } \cup {item}

\* store.delete(key)
StoreDelete(S, key) == { r \in S : KeyOf(r) # key }

\* the records of S in ascending key order
RECURSIVE SortedByKey(_)
SortedByKey(S) ==
    IF S = {} THEN <<>>
    ELSE LET first == CHOOSE r \in S : \A o \in S \ {r} : KeyLess(KeyOf(r), KeyOf(o))
         IN <<first>> \o SortedByKey(S \ {first})

Reverse(seq) == [i \in 1..Len(seq) |-> seq[Len(seq) + 1 - i]]

\* openCursor(range, direction): the records the cursor visits, in visiting order
Cursor(S, range, direction) ==
    LET inside == SortedByKey({ r \in S : InRange(range, KeyOf(r)) })
    IN IF direction = "prev" THEN Reverse(inside) ELSE inside

Filters == {"none", "severalCategories"}

\* searchParams.filter(item); "none" stands for no filter given
FilterPasses(filter, item) ==
    filter = "none" \/ Len(item.data.pieChart) > 1

\* searchParams.direction || "next"; "" stands for no direction given
DirectionOr(direction) == IF direction = "" THEN "next" ELSE direction

\* a scan whose limit counts every record visited, also the ones the filter rejects
RECURSIVE SearchFrom_countsVisited(_, _, _, _)
SearchFrom_countsVisited(visited, i, results, params) ==
    IF i > Len(visited) THEN [results |-> results, scanned |-> Len(visited)]
    ELSE LET pushed == IF FilterPasses(params.filter, visited[i])
                       THEN Append(results, visited[i]) ELSE results
         IN IF params.limit # 0 /\ i >= params.limit
            THEN [results |-> pushed, scanned |-> i]
            ELSE SearchFrom_countsVisited(visited, i + 1, pushed, params)

\* request.onsuccess of search(), from the i-th record the cursor visits: the
\* results collected and the number of records the cursor was moved over
RECURSIVE SearchFrom(_, _, _, _)
SearchFrom(visited, i, results, params) ==
    IF i > Len(visited) THEN [results |-> results, scanned |-> Len(visited)]
    ELSE LET pushed == IF FilterPasses(params.filter, visited[i])
                       THEN Append(results, visited[i]) ELSE results
         IN IF params.limit # 0 /\ Len(pushed) >= params.limit
            THEN [results |-> pushed, scanned |-> i]
            ELSE SearchFrom(visited, i + 1, pushed, params)

\* the cursor scan of search(storeName, {range, limit, direction, filter})
SearchScan(S, params) ==
    SearchFrom(Cursor(S, params.range, DirectionOr(params.direction)), 1, <<>>, params)

\* search(storeName, {range, limit, direction, filter}); limit 0 stands for no limit
Search(S, params) == SearchScan(S, params).results

RangeOnly(range) == [range |-> range, limit |-> 0, direction |-> "", filter |-> "none"]

----------------------------------------------------------------------------
(* Outcome of an operation: resolved (ok) or rejected, with what it resolved to *)

Outcome(op, storeName, ok, item, key, list, n) ==
    [op |-> op, store |-> storeName, ok |-> ok, item |-> item, key |-> key,
     list |-> list, n |-> n, prior |-> Undefined]

\* history: the item of the operation `op` that resolved just before on the same
\* store and key, when the operation settling now directly follows it
PriorItem(op, storeName, key) ==
    IF last.op = op /\ last.ok /\ last.store = storeName /\ last.key = key
    THEN last.item ELSE Undefined

NoOutcome == Outcome("none", DAILY_REPORTS_STORE, TRUE, Undefined, <<>>, <<>>, 0)

\* the handle has no connection: IndexedDB.db = null
NoDb == 0

\* what the variables of the other parts of the model hold while they are not in use
IdleUpdaters ==
    [p \in 1..NumUpdaters |->
        [pc |-> "idle", store |-> DAILY_REPORTS_STORE, key |-> <<>>, fn |-> "none",
         currentValue |-> Undefined, updatedValue |-> Undefined, overlapped |-> {}]]
IdleCleanup ==
    [pc |-> "idle", olderThan |-> [y |-> 0, m |-> 0, d |-> 0], deletes |-> <<>>,
     before |-> {}, yearlyBefore |-> {}, interfered |-> FALSE]
IdleCalls == [c \in 1..NumCallers |-> [pc |-> "idle", result |-> NoDb]]
IdleCall == [pc |-> "idle"]
NoObserver == [observing |-> FALSE, patched |-> {}, events |-> <<>>]
NoDoc == [exported |-> FALSE]
IdleImport == [pc |-> "idle"]
IdleFlows == [f \in 1..NumFlows |-> [pc |-> "idle"]]
IdleTimer ==
    [isRunning |-> FALSE, resetKey |-> 0, showIntervalPopup |-> FALSE,
     showWorkPopup |-> FALSE, pendingWorkPopup |-> FALSE, workDuration |-> 0,
     workDue |-> FALSE]

----------------------------------------------------------------------------
(* Operations of the engine and the repository that are one IndexedDB          *)
(* transaction each.  They run on an open handle: every one of them starts     *)
(* with `await this.connect()`, modelled by ConnectCall/OpenSuccess below.     *)

\* history: a write that settles while cleanupOldReports is deleting is a
\* concurrent writer of that call
NoteWriter ==
    cleanup' = [cleanup EXCEPT !.interfered = @ \/ cleanup.pc = "deleting"]

\* the IDBObjectStore object a transaction hands out: transaction.objectStore(name)
\* is an object of that one transaction, and every db.transaction() call opens a
\* new transaction, named here by the call that opened it
StoreObject(opener, storeName) == [transaction |-> opener, store |-> storeName]

\* store.add / put / delete / clear called on the store object of the operation's
\* own transaction: a patched object reports the success to the observer's callback
Notify(type, storeName, key, value, succeeds) ==
    obs' = IF succeeds /\ StoreObject(type, storeName) \in obs.patched
           THEN [obs EXCEPT !.events =
                    Append(@, [type |-> type, storeName |-> storeName,
                               key |-> key, value |-> value])]
           ELSE obs

\* add() that replaces an existing record instead of failing
Add_overwrites(storeName, item) ==
    /\ db # NoDb
    /\ HasKey(stores[storeName], KeyOf(item)) \/ Cardinality(stores[storeName]) < MaxRecords
    /\ stores' = [stores EXCEPT ![storeName] = StorePut(@, item)]
    /\ last' = Outcome("add", storeName, TRUE, item, KeyOf(item), <<>>, 0)
    /\ NoteWriter
    /\ Notify("add", storeName, KeyOf(item), item, TRUE)
    /\ UNCHANGED <<upd, db, live, calls, opened, call, doc, imp, flow, timer>>

\* add(storeName, item); addDailyReport, addYearlyReport
Add(storeName, item) ==
    /\ db # NoDb
    /\ IF HasKey(stores[storeName], KeyOf(item))
       THEN \* ConstraintError: request.onerror rejects
            /\ stores' = stores
            /\ last' = Outcome("add", storeName, FALSE, item, KeyOf(item), <<>>, 0)
       ELSE /\ Cardinality(stores[storeName]) < MaxRecords
            /\ stores' = [stores EXCEPT ![storeName] = @ \cup {item}]
            /\ last' = Outcome("add", storeName, TRUE, item, KeyOf(item), <<>>, 0)
    /\ NoteWriter
    /\ Notify("add", storeName, KeyOf(item), item, ~HasKey(stores[storeName], KeyOf(item)))
    /\ UNCHANGED <<upd, db, live, calls, opened, call, doc, imp, flow, timer>>

\* put() that keeps the record it finds under the key
Put_keepsExisting(storeName, item) ==
    /\ db # NoDb
    /\ HasKey(stores[storeName], KeyOf(item)) \/ Cardinality(stores[storeName]) < MaxRecords
    /\ stores' = [stores EXCEPT ![storeName] =
                      IF HasKey(@, KeyOf(item)) THEN @ ELSE @ \cup {item}]
    /\ last' = [Outcome("put", storeName, TRUE, item, KeyOf(item), <<>>, 0)
                   EXCEPT !.prior = PriorItem("put", storeName, KeyOf(item))]
    /\ NoteWriter
    /\ Notify("put", storeName, KeyOf(item), item, TRUE)
    /\ UNCHANGED <<upd, db, live, calls, opened, call, doc, imp, flow, timer>>

\* put(storeName, item); updateDailyReport, updateYearlyReport
Put(storeName, item) ==
    /\ db # NoDb
    /\ HasKey(stores[storeName], KeyOf(item)) \/ Cardinality(stores[storeName]) < MaxRecords
    /\ stores' = [stores EXCEPT ![storeName] = StorePut(@, item)]
    /\ last' = [Outcome("put", storeName, TRUE, item, KeyOf(item), <<>>, 0)
                   EXCEPT !.prior = PriorItem("put", storeName, KeyOf(item))]
    /\ NoteWriter
    /\ Notify("put", storeName, KeyOf(item), item, TRUE)
    /\ UNCHANGED <<upd, db, live, calls, opened, call, doc, imp, flow, timer>>

\* get(storeName, key); getDailyReport, getYearlyReport
Get(storeName, key) ==
    /\ db # NoDb
    /\ last' = [Outcome("get", storeName, TRUE, StoreGet(stores[storeName], key), key,
                         <<>>, 0)
                   EXCEPT !.prior = PriorItem("add", storeName, key)]
    /\ UNCHANGED <<stores, upd, cleanup, db, live, calls, opened, call, obs, doc,
                   imp, flow, timer>>

\* delete(storeName, key); deleteDailyReport, deleteYearlyReport
Delete(storeName, key) ==
    /\ db # NoDb
    /\ stores' = [stores EXCEPT ![storeName] = StoreDelete(@, key)]
    /\ last' = Outcome("delete", storeName, TRUE, Undefined, key, <<>>, 0)
    /\ NoteWriter
    /\ Notify("delete", storeName, key, Undefined, TRUE)
    /\ UNCHANGED <<upd, db, live, calls, opened, call, doc, imp, flow, timer>>

\* clear(storeName)
Clear(storeName) ==
    /\ db # NoDb
    /\ stores' = [stores EXCEPT ![storeName] = {}]
    /\ last' = Outcome("clear", storeName, TRUE, Undefined, <<>>, <<>>, 0)
    /\ NoteWriter
    /\ Notify("clear", storeName, <<>>, Undefined, TRUE)
    /\ UNCHANGED <<upd, db, live, calls, opened, call, doc, imp, flow, timer>>

\* count(storeName); getDailyReportCount, getYearlyReportCount
Count(storeName) ==
    /\ db # NoDb
    /\ last' = Outcome("count", storeName, TRUE, Undefined, <<>>, <<>>,
                       Cardinality(stores[storeName]))
    /\ UNCHANGED <<stores, upd, cleanup, db, live, calls, opened, call, obs, doc,
                   imp, flow, timer>>

\* getDailyReportsByMonth(yearMonth)
GetDailyReportsByMonth(yearMonth) ==
    /\ db # NoDb
    /\ last' = Outcome("getDailyReportsByMonth", DAILY_REPORTS_STORE, TRUE, Undefined,
                       yearMonth,
                       Search(stores[DAILY_REPORTS_STORE],
                              RangeOnly(PrefixRange(yearMonth \o Dash))), 0)
    /\ UNCHANGED <<stores, upd, cleanup, db, live, calls, opened, call, obs, doc,
                   imp, flow, timer>>

\* getDailyReportsByYear(year)
getDailyReportsByYear(S, year) == Search(S, RangeOnly(PrefixRange(year \o Dash)))

\* generateYearlyReport() that resolves with an empty report when no daily report matches
GenerateYearlyReport_neverRejects(year) ==
    /\ db # NoDb
    /\ LET dailyReports == getDailyReportsByYear(stores[DAILY_REPORTS_STORE], year)
           mergedData == mergeReportData([i \in 1..Len(dailyReports) |-> dailyReports[i].data])
       IN last' = Outcome("generateYearlyReport", DAILY_REPORTS_STORE, TRUE,
                          YearlyReportOf(year, mergedData), year, <<>>, 0)
    /\ UNCHANGED <<stores, upd, cleanup, db, live, calls, opened, call, obs, doc,
                   imp, flow, timer>>

\* generateYearlyReport() that also stores the report it built
GenerateYearlyReport_persists(year) ==
    /\ db # NoDb
    /\ LET dailyReports == getDailyReportsByYear(stores[DAILY_REPORTS_STORE], year)
           mergedData == mergeReportData([i \in 1..Len(dailyReports) |-> dailyReports[i].data])
       IN IF Len(dailyReports) = 0
          THEN /\ last' = Outcome("generateYearlyReport", DAILY_REPORTS_STORE, FALSE,
                                  Undefined, year, <<>>, 0)
               /\ stores' = stores
          ELSE /\ last' = Outcome("generateYearlyReport", DAILY_REPORTS_STORE, TRUE,
                                  YearlyReportOf(year, mergedData), year, <<>>, 0)
               /\ stores' = [stores EXCEPT ![YEARLY_REPORTS_STORE] =
                                 StorePut(@, YearlyReportOf(year, mergedData))]
    /\ UNCHANGED <<upd, cleanup, db, live, calls, opened, call, obs, doc,
                   imp, flow, timer>>

\* generateYearlyReport(year)
GenerateYearlyReport(year) ==
    /\ db # NoDb
    /\ LET dailyReports == getDailyReportsByYear(stores[DAILY_REPORTS_STORE], year)
           mergedData == mergeReportData([i \in 1..Len(dailyReports) |-> dailyReports[i].data])
       IN IF Len(dailyReports) = 0
          THEN \* throw new Error("No daily reports found for year ...")
               last' = Outcome("generateYearlyReport", DAILY_REPORTS_STORE, FALSE,
                               Undefined, year, <<>>, 0)
          ELSE last' = Outcome("generateYearlyReport", DAILY_REPORTS_STORE, TRUE,
                               YearlyReportOf(year, mergedData), year, <<>>, 0)
    /\ UNCHANGED <<stores, upd, cleanup, db, live, calls, opened, call, obs, doc,
                   imp, flow, timer>>

Init ==
    /\ stores = [s \in StoreNames |-> {}]
    /\ last = NoOutcome
    /\ upd = IdleUpdaters
    /\ cleanup = IdleCleanup
    /\ db = 1
    /\ live = {1}
    /\ calls = IdleCalls
    /\ opened = 1
    /\ call = IdleCall
    /\ obs = NoObserver
    /\ doc = NoDoc
    /\ imp = IdleImport
    /\ flow = IdleFlows
    /\ timer = IdleTimer

Next ==
    \/ \E s \in StoreNames : \E item \in ItemsOf(s) : Add(s, item)
    \/ \E s \in StoreNames : \E item \in ItemsOf(s) : Put(s, item)
    \/ \E s \in StoreNames : \E key \in KeysOf(s) : Get(s, key)
    \/ \E s \in StoreNames : \E key \in KeysOf(s) : Delete(s, key)
    \/ \E s \in StoreNames : Clear(s)
    \/ \E s \in StoreNames : Count(s)
    \/ \E yearMonth \in YearMonths : GetDailyReportsByMonth(yearMonth)
    \/ \E year \in Years : GenerateYearlyReport(year)

Spec == Init /\ [][Next]_vars

----------------------------------------------------------------------------
(* Properties of the single-transaction operations (specification Spec) *)

Daily == stores[DAILY_REPORTS_STORE]
Yearly == stores[YEARLY_REPORTS_STORE]

\* C1: add(store, item) rejects when a record with the same primary key is already
\* stored and leaves every store as it was; when the key is absent it inserts the
\* item, changes nothing else, and resolves with the item's key.
C1_AddRejectsDuplicate ==
    [][ last'.op = "add" =>
          LET s == last'.store
              item == last'.item
          IN IF HasKey(stores[s], KeyOf(item))
             THEN ~last'.ok /\ stores' = stores
             ELSE /\ last'.ok
                  /\ last'.key = KeyOf(item)
                  /\ stores'[s] = stores[s] \cup {item}
                  /\ \A o \in StoreNames \ {s} : stores'[o] = stores[o] ]_vars

\* an add was rejected while a different record sits under its key, still stored
C1_Witness ==
    /\ last.op = "add"
    /\ ~last.ok
    /\ HasKey(stores[last.store], last.key)
    /\ StoreGet(stores[last.store], last.key) # last.item

\* C2: a get that directly follows a resolved add of record r on the same store and
\* key resolves with a value equal to r; a get of a key that is not in the store
\* resolves with the absent result; get never rejects.
C2_RoundTrip ==
    last.op = "get" =>
        /\ last.ok
        /\ last.prior # Undefined => last.item = last.prior
        /\ ~HasKey(stores[last.store], last.key) => last.item = Undefined

\* a get directly after the add of its key, in a store that holds other records too
C2_Witness ==
    /\ last.op = "get"
    /\ last.prior # Undefined
    /\ Cardinality(stores[last.store]) >= 2

\* C3: put(store, r) never rejects; after it the record under key(r) equals r and
\* every other record of every store is unchanged; a put(r) that directly follows
\* put(r) leaves the stores exactly as the first put left them.
C3_PutIdempotentUpsert ==
    [][ last'.op = "put" =>
          LET s == last'.store
              item == last'.item
          IN /\ last'.ok
             /\ StoreGet(stores'[s], KeyOf(item)) = item
             /\ \A r \in stores[s] : KeyOf(r) # KeyOf(item) => r \in stores'[s]
             /\ \A r \in stores'[s] : r = item \/ r \in stores[s]
             /\ \A o \in StoreNames \ {s} : stores'[o] = stores[o]
             /\ last'.prior = item => stores' = stores ]_vars

\* the second of two successive put(r), on a key that held another record before
C3_Witness ==
    /\ last.op = "put"
    /\ last.prior = last.item
    /\ Cardinality(stores[last.store]) >= 2

\* C7: getDailyReportsByMonth(yearMonth) resolves with exactly the stored daily
\* reports whose id starts with yearMonth + "-", each once, in ascending id order.
C7_MonthPrefixExact ==
    last.op = "getDailyReportsByMonth" =>
        LET L == last.list
            wanted == { r \in Daily : StartsWith(KeyOf(r), last.key \o Dash) }
        IN /\ last.ok
           /\ { L[i] : i \in 1..Len(L) } = wanted
           /\ Len(L) = Cardinality(wanted)
           /\ \A i \in 1..Len(L) : \A j \in 1..Len(L) :
                  i < j => KeyLess(KeyOf(L[i]), KeyOf(L[j]))

\* a month query that returned two reports and left a stored third one out
C7_Witness ==
    /\ last.op = "getDailyReportsByMonth"
    /\ Len(last.list) = 2
    /\ Cardinality(Daily) = 3

\* C9: generateYearlyReport(year) rejects when no stored daily report has an id
\* starting with year + "-"; otherwise it resolves with a report whose id and year
\* are the given year and whose title is "Annual Report " followed by the year.
C9_YearlyRejectsWhenEmpty ==
    last.op = "generateYearlyReport" =>
        LET matching == { r \in Daily : StartsWith(KeyOf(r), last.key \o Dash) }
        IN /\ matching = {} => ~last.ok
           /\ matching # {} =>
                 /\ last.ok
                 /\ last.item.id = last.key
                 /\ last.item.year = last.key
                 /\ last.item.title = AnnualTitlePrefix \o last.key

\* generateYearlyReport rejected although daily reports of another year are stored
C9_Witness ==
    /\ last.op = "generateYearlyReport"
    /\ ~last.ok
    /\ Daily # {}

\* C10: generateYearlyReport(year) only reads: resolved or rejected, both stores
\* hold the same records after the call as before it.
C10_GenerateOnlyReads ==
    [][ last'.op = "generateYearlyReport" => stores' = stores ]_vars

\* generateYearlyReport resolved and the yearly store holds no report of that year
C10_Witness ==
    /\ last.op = "generateYearlyReport"
    /\ last.ok
    /\ ~HasKey(Yearly, last.key)
    /\ Cardinality(Daily) >= 2

----------------------------------------------------------------------------
(* update(storeName, key, updateFn): a get, then a put, two transactions *)

UpdateFns == {"retitle", "resetData"}

\* "Edited"
EditedTitle == <<69, 100, 105, 116, 101, 100>>

\* the id the update function "rekey" gives its result
RekeyedId == toISODate([y |-> 2024, m |-> 1, d |-> 31])

\* updateFn(currentValue)
ApplyFn(fn, value) ==
    IF fn = "retitle" THEN [value EXCEPT !.title = EditedTitle]
    ELSE IF fn = "rekey" THEN [value EXCEPT !.id = RekeyedId]
    ELSE [value EXCEPT !.data = generateReportData(ProcessedOne)]

UpdateKeys == { toISODate([y |-> 2024, m |-> 1, d |-> 15]),
                toISODate([y |-> 2024, m |-> 1, d |-> 31]) }

UpdateItems == { DailyReportOf(id, generateReportData(ProcessedTwo)) : id \in UpdateKeys }

\* every content a store of at most MaxRecords of the given items can have
StoreContents(items) ==
    { S \in SUBSET items :
        /\ Cardinality(S) <= MaxRecords
        /\ \A r \in S : \A o \in S : KeyOf(r) = KeyOf(o) => r = o }

\* update() without the not-found check: the update function gets a blank record
UpdateGet_noNotFoundCheck(p, storeName, key, fn) ==
    /\ db # NoDb
    /\ upd[p].pc = "idle"
    /\ LET currentValue == StoreGet(stores[storeName], key)
           given == IF currentValue = Undefined
                    THEN DailyReportOf(key, generateReportData(ProcessedOne))
                    ELSE currentValue
       IN upd' = [upd EXCEPT ![p] =
                     [@ EXCEPT !.pc = "got", !.store = storeName, !.key = key, !.fn = fn,
                               !.currentValue = currentValue,
                               !.updatedValue = ApplyFn(fn, given)]]
    /\ UNCHANGED <<stores, last, cleanup, db, live, calls, opened, call, obs, doc,
                   imp, flow, timer>>

\* update(), up to the end of `await this.get(storeName, key)` and updateFn
UpdateGet(p, storeName, key, fn) ==
    /\ db # NoDb
    /\ upd[p].pc = "idle"
    /\ LET currentValue == StoreGet(stores[storeName], key)
       IN IF currentValue = Undefined
          THEN \* reject("Item with key ... not found for update")
               upd' = [upd EXCEPT ![p] =
                          [@ EXCEPT !.pc = "rejected", !.store = storeName, !.key = key,
                                    !.fn = fn]]
          ELSE upd' = [upd EXCEPT ![p] =
                          [@ EXCEPT !.pc = "got", !.store = storeName, !.key = key,
                                    !.fn = fn, !.currentValue = currentValue,
                                    !.updatedValue = ApplyFn(fn, currentValue)]]
    /\ UNCHANGED <<stores, last, cleanup, db, live, calls, opened, call, obs, doc,
                   imp, flow, timer>>

\* history: the updaters that have read the key p is about to write and not written yet
ReadersOf(p) ==
    { q \in (1..NumUpdaters) \ {p} :
        upd[q].pc = "got" /\ upd[q].store = upd[p].store /\ upd[q].key = upd[p].key }

\* an update() whose put applies updateFn to the record stored at the time of the put
UpdatePut_rereads(p) ==
    /\ db # NoDb
    /\ upd[p].pc = "got"
    /\ stores' = [stores EXCEPT ![upd[p].store] =
                     StorePut(@, ApplyFn(upd[p].fn, StoreGet(@, upd[p].key)))]
    /\ upd' = [upd EXCEPT ![p] = [@ EXCEPT !.pc = "resolved", !.overlapped = ReadersOf(p)]]
    /\ UNCHANGED <<last, cleanup, db, live, calls, opened, call, obs, doc,
                   imp, flow, timer>>

\* update(), `await this.put(storeName, updatedValue)` and resolve(updatedValue)
UpdatePut(p) ==
    /\ db # NoDb
    /\ upd[p].pc = "got"
    /\ stores' = [stores EXCEPT ![upd[p].store] = StorePut(@, upd[p].updatedValue)]
    /\ upd' = [upd EXCEPT ![p] = [@ EXCEPT !.pc = "resolved", !.overlapped = ReadersOf(p)]]
    /\ UNCHANGED <<last, cleanup, db, live, calls, opened, call, obs, doc,
                   imp, flow, timer>>

InitUpdate ==
    /\ stores \in { [s \in StoreNames |-> IF s = DAILY_REPORTS_STORE THEN S ELSE {}] :
                      S \in StoreContents(UpdateItems) }
    /\ last = NoOutcome
    /\ upd = IdleUpdaters
    /\ cleanup = IdleCleanup
    /\ db = 1
    /\ live = {1}
    /\ calls = IdleCalls
    /\ opened = 1
    /\ call = IdleCall
    /\ obs = NoObserver
    /\ doc = NoDoc
    /\ imp = IdleImport
    /\ flow = IdleFlows
    /\ timer = IdleTimer

NextUpdate ==
    \/ \E p \in 1..NumUpdaters : \E key \in UpdateKeys : \E fn \in UpdateFns :
           UpdateGet(p, DAILY_REPORTS_STORE, key, fn)
    \/ \E p \in 1..NumUpdaters : UpdatePut(p)

SpecUpdate == InitUpdate /\ [][NextUpdate]_vars

\* C4: update(store, key, updateFn) rejects when no record is stored under key, and
\* then writes nothing: the step that finds the key absent rejects the call, leaves
\* every store unchanged, and a rejected call takes no further step.
C4_UpdateRejectsAbsent ==
    [][ \A p \in 1..NumUpdaters :
          /\ (upd[p].pc = "idle" /\ upd'[p].pc # "idle") =>
                IF HasKey(stores[upd'[p].store], upd'[p].key)
                THEN upd'[p].pc = "got"
                ELSE upd'[p].pc = "rejected" /\ stores' = stores
          /\ upd[p].pc = "rejected" => upd'[p] = upd[p] ]_vars

\* an update was rejected for a missing key while the store holds another record
C4_Witness ==
    \E p \in 1..NumUpdaters :
        /\ upd[p].pc = "rejected"
        /\ stores[upd[p].store] # {}
        /\ ~HasKey(stores[upd[p].store], upd[p].key)

\* no updater other than p and q has touched the key p updated
OnlyThese(p, q) ==
    \A r \in (1..NumUpdaters) \ {p, q} :
        upd[r].pc \in {"idle", "rejected"} \/ upd[r].key # upd[p].key

\* C5: update() is a non-atomic read-modify-write.  When two update() calls on the
\* same key have both read before either writes, and both have resolved, the stored
\* record is the second writer's function applied to the record both read: the first
\* writer's update is lost.
C5_LostUpdate ==
    \A p \in 1..NumUpdaters : \A q \in 1..NumUpdaters :
        ( /\ upd[p].pc = "resolved"
          /\ upd[q].pc = "resolved"
          /\ q \in upd[p].overlapped
          /\ OnlyThese(p, q) ) =>
            /\ upd[q].currentValue = upd[p].currentValue
            /\ StoreGet(stores[upd[p].store], upd[p].key)
                   = ApplyFn(upd[q].fn, upd[p].currentValue)

\* both updates resolved, and the stored record lacks the first writer's change
C5_Witness ==
    \E p \in 1..NumUpdaters : \E q \in 1..NumUpdaters :
        /\ upd[p].pc = "resolved"
        /\ upd[q].pc = "resolved"
        /\ q \in upd[p].overlapped
        /\ upd[p].fn # upd[q].fn
        /\ LET stored == StoreGet(stores[upd[p].store], upd[p].key)
               original == upd[p].currentValue
           IN /\ stored # ApplyFn(upd[q].fn, ApplyFn(upd[p].fn, original))
              /\ stored # ApplyFn(upd[p].fn, ApplyFn(upd[q].fn, original))
              /\ stored = ApplyFn(upd[q].fn, original)

----------------------------------------------------------------------------
(* cleanupOldReports(olderThan): one search, then one delete per report found *)

\* cleanupOldReports(), up to the end of `await this.db.search(...)`; the deletes
\* are issued in the order of the reports found
CleanupSearch(olderThan) ==
    /\ db # NoDb
    /\ cleanup.pc = "idle"
    /\ LET olderThanStr == toISODate(olderThan)
           oldReports == Search(stores[DAILY_REPORTS_STORE],
                                RangeOnly(LessThanRange(olderThanStr)))
       IN cleanup' = [cleanup EXCEPT
                         !.pc = "deleting",
                         !.olderThan = olderThan,
                         !.deletes = [i \in 1..Len(oldReports) |-> KeyOf(oldReports[i])],
                         !.before = stores[DAILY_REPORTS_STORE],
                         !.yearlyBefore = stores[YEARLY_REPORTS_STORE]]
    /\ UNCHANGED <<stores, last, upd, db, live, calls, opened, call, obs, doc,
                   imp, flow, timer>>

\* one this.db.delete(DAILY_REPORTS_STORE, report.id) of deletePromises settles
CleanupDelete ==
    /\ db # NoDb
    /\ cleanup.pc = "deleting"
    /\ cleanup.deletes # <<>>
    /\ stores' = [stores EXCEPT ![DAILY_REPORTS_STORE] = StoreDelete(@, Head(cleanup.deletes))]
    /\ cleanup' = [cleanup EXCEPT !.deletes = Tail(@)]
    /\ UNCHANGED <<last, upd, db, live, calls, opened, call, obs, doc,
                   imp, flow, timer>>

\* `await Promise.all(deletePromises)` resolves
CleanupDone ==
    /\ cleanup.pc = "deleting"
    /\ cleanup.deletes = <<>>
    /\ cleanup' = [cleanup EXCEPT !.pc = "done"]
    /\ UNCHANGED <<stores, last, upd, db, live, calls, opened, call, obs, doc,
                   imp, flow, timer>>

\* another caller writes to the daily store while the cleanup is deleting (the
\* model lets one such write happen per cleanup)
ConcurrentWrite ==
    /\ cleanup.pc = "deleting"
    /\ ~cleanup.interfered
    /\ \/ \E item \in DailyItems : Put(DAILY_REPORTS_STORE, item)
       \/ \E key \in DailyIds : Delete(DAILY_REPORTS_STORE, key)

InitCleanup ==
    /\ stores \in { [s \in StoreNames |-> IF s = DAILY_REPORTS_STORE THEN D ELSE Y] :
                      D \in StoreContents(DailyItems),
                      Y \in { {}, { CHOOSE item \in YearlyItems : TRUE } } }
    /\ last = NoOutcome
    /\ upd = IdleUpdaters
    /\ cleanup = IdleCleanup
    /\ db = 1
    /\ live = {1}
    /\ calls = IdleCalls
    /\ opened = 1
    /\ call = IdleCall
    /\ obs = NoObserver
    /\ doc = NoDoc
    /\ imp = IdleImport
    /\ flow = IdleFlows
    /\ timer = IdleTimer

NextCleanup ==
    \/ \E olderThan \in Dates : CleanupSearch(olderThan)
    \/ CleanupDelete
    \/ CleanupDone
    \/ ConcurrentWrite

SpecCleanup == InitCleanup /\ [][NextCleanup]_vars

\* C8: after cleanupOldReports(d) completes with no concurrent writer, the daily
\* store holds exactly the previously stored daily reports whose id is not
\* lexicographically smaller than d formatted as YYYY-MM-DD, and the yearly store
\* is unchanged.
C8_CleanupBoundary ==
    (cleanup.pc = "done" /\ ~cleanup.interfered) =>
        /\ Daily = { r \in cleanup.before :
                       ~KeyLess(KeyOf(r), toISODate(cleanup.olderThan)) }
        /\ Yearly = cleanup.yearlyBefore

\* a cleanup completed that deleted a report and kept the one dated on the threshold
C8_Witness ==
    /\ cleanup.pc = "done"
    /\ ~cleanup.interfered
    /\ Daily # cleanup.before
    /\ HasKey(Daily, toISODate(cleanup.olderThan))
    /\ Yearly # {}

----------------------------------------------------------------------------
(* connect() / initialize() and close() on a handle that starts unopened *)

\* connect() up to its first suspension: returns this.db when set, else calls
\* indexedDB.open and waits for the request
ConnectCall(c) ==
    /\ calls[c].pc = "idle"
    /\ IF db # NoDb
       THEN calls' = [calls EXCEPT ![c] = [pc |-> "resolved", result |-> db]]
       ELSE calls' = [calls EXCEPT ![c] = [pc |-> "opening", result |-> NoDb]]
    /\ UNCHANGED <<stores, last, upd, cleanup, db, live, opened, call, obs, doc,
                   imp, flow, timer>>

\* request.onsuccess: a new connection is open; this.db is set and the call resolves
OpenSuccess(c) ==
    /\ calls[c].pc = "opening"
    /\ opened < MaxOpens
    /\ opened' = opened + 1
    /\ live' = live \cup {opened + 1}
    /\ db' = opened + 1
    /\ calls' = [calls EXCEPT ![c] = [pc |-> "resolved", result |-> opened + 1]]
    /\ UNCHANGED <<stores, last, upd, cleanup, call, obs, doc, imp, flow, timer>>

\* the caller is done with the resolved call and may call again
CallReturn(c) ==
    /\ calls[c].pc = "resolved"
    /\ calls' = [calls EXCEPT ![c] = [pc |-> "idle", result |-> NoDb]]
    /\ UNCHANGED <<stores, last, upd, cleanup, db, live, opened, call, obs, doc,
                   imp, flow, timer>>

\* close()
Close ==
    /\ db # NoDb
    /\ live' = live \ {db}
    /\ db' = NoDb
    /\ UNCHANGED <<stores, last, upd, cleanup, calls, opened, call, obs, doc,
                   imp, flow, timer>>

InitConn ==
    /\ stores = [s \in StoreNames |-> {}]
    /\ last = NoOutcome
    /\ upd = IdleUpdaters
    /\ cleanup = IdleCleanup
    /\ db = NoDb
    /\ live = {}
    /\ calls = IdleCalls
    /\ opened = 0
    /\ call = IdleCall
    /\ obs = NoObserver
    /\ doc = NoDoc
    /\ imp = IdleImport
    /\ flow = IdleFlows
    /\ timer = IdleTimer

NextConn ==
    \/ \E c \in 1..NumCallers : ConnectCall(c)
    \/ \E c \in 1..NumCallers : OpenSuccess(c)
    \/ \E c \in 1..NumCallers : CallReturn(c)
    \/ Close

SpecConn == InitConn /\ [][NextConn]_vars

\* C6: a handle has a single shared connection: every connect()/initialize() call,
\* overlapping or not, resolves to the connection the handle references, at most
\* one connection is open at a time, and no open connection exists that the handle
\* does not reference.
C6_SingleConnection ==
    /\ Cardinality(live) <= 1
    /\ \A k \in live : k = db
    /\ \A c \in 1..NumCallers :
           (calls[c].pc = "resolved" /\ calls[c].result \in live) => calls[c].result = db

----------------------------------------------------------------------------
(* mergeReportData as a function of its argument (specification SpecMerge) *)

\* most ReportData values in one reportDataArray
MaxInputs == 3

\* two activities seen once each, and a category without activities
ProcessedTied ==
    <<[category |-> "Work", activities |-> <<"email", "coding">>],
      [category |-> "Idle", activities |-> <<>>]>>

\* nothing but a category without activities: totalActivities is 0
ProcessedIdle == <<[category |-> "Idle", activities |-> <<>>]>>

\* a ReportData whose three views disagree, as a stored or imported record may hold
DisagreeingData ==
    [pieChart |-> <<[name |-> "Work", value |-> 5]>>,
     quickReport |-> <<[category |-> "Work", percent |-> Percent(5, 5)]>>,
     detailedReport |->
        <<[category |-> "Work", activities |-> <<[activity |-> "coding", count |-> 1]>>],
          [category |-> "Rest", activities |-> <<[activity |-> "nap", count |-> 2]>>]>>]

MergeInputs ==
    { generateReportData(ProcessedOne), generateReportData(ProcessedTwo),
      generateReportData(ProcessedTied), generateReportData(ProcessedIdle),
      DisagreeingData }

SeqsUpTo(S, n) == UNION { [1..k -> S] : k \in 0..n }

\* one call mergeReportData(reportDataArray); the outcome keeps argument and result
MergeReports(reportDataArray) ==
    /\ last' = Outcome("mergeReportData", YEARLY_REPORTS_STORE, TRUE,
                       mergeReportData(reportDataArray), <<>>, reportDataArray, 0)
    /\ UNCHANGED <<stores, upd, cleanup, db, live, calls, opened, call, obs, doc,
                   imp, flow, timer>>

InitMerge == Init

NextMerge == \E reportDataArray \in SeqsUpTo(MergeInputs, MaxInputs) :
                 MergeReports(reportDataArray)

SpecMerge == InitMerge /\ [][NextMerge]_vars

Merged == last.op = "mergeReportData"

RECURSIVE ConcatAll(_)
ConcatAll(seqs) == IF seqs = <<>> THEN <<>> ELSE Head(seqs) \o ConcatAll(Tail(seqs))

\* every pie slice of every input, in the order the inputs list them
InputSlices(inputs) == ConcatAll([i \in 1..Len(inputs) |-> inputs[i].pieChart])

\* the (category, activity, count) entries of a detailed report, in listing order
Triples(detailedReport) ==
    ConcatAll([i \in 1..Len(detailedReport) |->
        [j \in 1..Len(detailedReport[i].activities) |->
            [category |-> detailedReport[i].category,
             activity |-> detailedReport[i].activities[j].activity,
             count |-> detailedReport[i].activities[j].count]]])

InputTriples(inputs) == ConcatAll([i \in 1..Len(inputs) |-> Triples(inputs[i].detailedReport)])

RECURSIVE SumValues(_)
SumValues(slices) ==
    IF slices = <<>> THEN 0 ELSE Head(slices).value + SumValues(Tail(slices))

RECURSIVE SliceTotal(_, _)
SliceTotal(slices, name) ==
    IF slices = <<>> THEN 0
    ELSE (IF Head(slices).name = name THEN Head(slices).value ELSE 0)
         + SliceTotal(Tail(slices), name)

RECURSIVE PairTotal(_, _, _)
PairTotal(triples, category, activity) ==
    IF triples = <<>> THEN 0
    ELSE (IF Head(triples).category = category /\ Head(triples).activity = activity
          THEN Head(triples).count ELSE 0)
         + PairTotal(Tail(triples), category, activity)

SamePair(a, b) == a.category = b.category /\ a.activity = b.activity

\* C11: the values of the merged pie slices add up to the sum of all input slice
\* values, and each merged slice holds the sum of the input slices of its name.
C11_AggregationConservation ==
    Merged =>
        LET merged == last.item.pieChart
            slices == InputSlices(last.list)
        IN /\ SumValues(merged) = SumValues(slices)
           /\ \A i \in 1..Len(merged) :
                  merged[i].value = SliceTotal(slices, merged[i].name)

\* a merge of several inputs in which one category's slice sums two input slices
C11_Witness ==
    /\ Merged
    /\ Len(last.list) >= 2
    /\ Len(last.item.pieChart) >= 2
    /\ \E i \in 1..Len(last.item.pieChart) :
           \E a, b \in 1..Len(last.list) :
               /\ a # b
               /\ SliceTotal(last.list[a].pieChart, last.item.pieChart[i].name) > 0
               /\ SliceTotal(last.list[b].pieChart, last.item.pieChart[i].name) > 0

\* C12: each (category, activity) pair of the inputs occurs exactly once in the merged
\* detailed report with the sum of its input counts, no other pair occurs, and N
\* reports holding "Work"/"coding" once each merge into "coding" with count N.
C12_PairsSummedOnce ==
    Merged =>
        LET out == Triples(last.item.detailedReport)
            inp == InputTriples(last.list)
        IN /\ \A i \in 1..Len(inp) :
                  Cardinality({ j \in 1..Len(out) : SamePair(out[j], inp[i]) }) = 1
           /\ \A j \in 1..Len(out) :
                  /\ \E i \in 1..Len(inp) : SamePair(out[j], inp[i])
                  /\ out[j].count = PairTotal(inp, out[j].category, out[j].activity)
           /\ \A i, j \in 1..Len(last.item.detailedReport) :
                  last.item.detailedReport[i].category = last.item.detailedReport[j].category
                      => i = j
           /\ (Len(last.list) >= 1
                 /\ \A i \in 1..Len(last.list) :
                        last.list[i] = generateReportData(ProcessedOne))
              => last.item.detailedReport =
                     <<[category |-> "Work",
                        activities |-> <<[activity |-> "coding",
                                          count |-> Len(last.list)]>>]>>

\* as many daily reports as the bound allows, each with "Work"/"coding" once
C12_Witness ==
    /\ Merged
    /\ Len(last.list) >= 3
    /\ \A i \in 1..Len(last.list) : last.list[i] = generateReportData(ProcessedOne)
    /\ last.item.detailedReport[1].activities[1].count = Len(last.list)

\* position at which the pair is first met when the inputs are read in order
FirstSeen(inp, category, activity) ==
    CHOOSE i \in 1..Len(inp) :
        /\ inp[i].category = category /\ inp[i].activity = activity
        /\ \A j \in 1..(i - 1) :
               ~(inp[j].category = category /\ inp[j].activity = activity)

\* C13: in every merged category the activities are in descending order of count,
\* and activities of equal count are in the order of their first occurrence in the
\* inputs.
C13_SortedStable ==
    Merged =>
        LET inp == InputTriples(last.list)
        IN \A c \in 1..Len(last.item.detailedReport) :
               LET category == last.item.detailedReport[c].category
                   acts == last.item.detailedReport[c].activities
               IN \A i, j \in 1..Len(acts) :
                      i < j =>
                          \/ acts[i].count > acts[j].count
                          \/ /\ acts[i].count = acts[j].count
                             /\ FirstSeen(inp, category, acts[i].activity)
                                    < FirstSeen(inp, category, acts[j].activity)

\* two activities whose counts, summed over several inputs, are equal, next to an
\* activity of another count
C13_Witness ==
    /\ Merged
    /\ Len(last.list) >= 2
    /\ \E c \in 1..Len(last.item.detailedReport) :
           LET acts == last.item.detailedReport[c].activities
           IN /\ Len(acts) >= 2
              /\ acts[1].count = acts[2].count
              /\ acts[1].count >= 2

\* a percent held as the fraction num / den, multiplied by factor, equals product;
\* a quotient by zero is NaN (0 / 0) and equals no number
PercentTimesIs(percent, factor, product) ==
    /\ percent.den # 0
    /\ percent.num * factor = product * percent.den

IsNaN(percent) == percent.den = 0 /\ percent.num = 0

RECURSIVE SumPercents(_)
SumPercents(quickReport) ==
    IF quickReport = <<>> THEN [num |-> 0, den |-> 1]
    ELSE LET p == Head(quickReport).percent
             rest == SumPercents(Tail(quickReport))
         IN [num |-> p.num * rest.den + rest.num * p.den, den |-> p.den * rest.den]

\* the quick report has exactly one entry for each category of the pie chart
OneEntryPerSlice(data) ==
    /\ Len(data.quickReport) = Len(data.pieChart)
    /\ \A i \in 1..Len(data.pieChart) :
           Cardinality({ j \in 1..Len(data.quickReport) :
                           data.quickReport[j].category = data.pieChart[i].name }) = 1

GrandTotal == SumValues(InputSlices(last.list))

\* C14 as stated: one quick entry per merged category, and for every entry
\* percent x grandTotal = 100 x (the category's summed value), whatever the grand
\* total is; the percents add up to 100 when the grand total is nonzero.
C14_PercentTimesTotal ==
    Merged =>
        /\ OneEntryPerSlice(last.item)
        /\ \A j \in 1..Len(last.item.quickReport) :
               PercentTimesIs(last.item.quickReport[j].percent, GrandTotal,
                   100 * SliceTotal(InputSlices(last.list),
                                    last.item.quickReport[j].category))
        /\ GrandTotal # 0 => PercentTimesIs(SumPercents(last.item.quickReport), 1, 100)

\* C14, amended: one quick entry per merged category; when the grand total is
\* nonzero, percent x grandTotal = 100 x (the category's summed value) for every
\* entry and the percents add up to 100; when it is zero every percent is NaN.
C14_PercentWhenTotalNonzero ==
    Merged =>
        /\ OneEntryPerSlice(last.item)
        /\ GrandTotal # 0 =>
               /\ \A j \in 1..Len(last.item.quickReport) :
                      PercentTimesIs(last.item.quickReport[j].percent, GrandTotal,
                          100 * SliceTotal(InputSlices(last.list),
                                           last.item.quickReport[j].category))
               /\ PercentTimesIs(SumPercents(last.item.quickReport), 1, 100)
        /\ GrandTotal = 0 =>
               \A j \in 1..Len(last.item.quickReport) :
                   IsNaN(last.item.quickReport[j].percent)

\* several inputs merged into several categories of different nonzero shares
C14_Witness ==
    /\ Merged
    /\ Len(last.list) >= 2
    /\ GrandTotal # 0
    /\ \E i, j \in 1..Len(last.item.quickReport) :
           /\ last.item.pieChart[i].value > last.item.pieChart[j].value
           /\ last.item.pieChart[j].value > 0

CategoriesOfPie(data) == { data.pieChart[i].name : i \in 1..Len(data.pieChart) }
CategoriesOfQuick(data) == { data.quickReport[i].category : i \in 1..Len(data.quickReport) }
CategoriesOfDetail(data) ==
    { data.detailedReport[i].category : i \in 1..Len(data.detailedReport) }

RECURSIVE ActivityTotal(_, _)
ActivityTotal(triples, category) ==
    IF triples = <<>> THEN 0
    ELSE (IF Head(triples).category = category THEN Head(triples).count ELSE 0)
         + ActivityTotal(Tail(triples), category)

\* the three views list the same categories, and each category's pie value is the
\* sum of its activity counts
ViewsAgree(data) ==
    /\ CategoriesOfPie(data) = CategoriesOfQuick(data)
    /\ CategoriesOfPie(data) = CategoriesOfDetail(data)
    /\ \A category \in CategoriesOfPie(data) :
           SliceTotal(data.pieChart, category)
               = ActivityTotal(Triples(data.detailedReport), category)

\* each category name appears exactly once in each of the three lists
NamesOnce(data) ==
    /\ Len(data.pieChart) = Cardinality(CategoriesOfPie(data))
    /\ Len(data.quickReport) = Cardinality(CategoriesOfQuick(data))
    /\ Len(data.detailedReport) = Cardinality(CategoriesOfDetail(data))

\* C15: when the three views of every input agree, the three views of the merged
\* report agree and each of its lists names each category exactly once.
C15_ViewsStayConsistent ==
    (Merged /\ \A i \in 1..Len(last.list) : ViewsAgree(last.list[i]))
        => ViewsAgree(last.item) /\ NamesOnce(last.item)

\* agreeing inputs, one of them with a category that has no activities, merged into
\* several categories
C15_Witness ==
    /\ Merged
    /\ Len(last.list) >= 2
    /\ \A i \in 1..Len(last.list) : ViewsAgree(last.list[i])
    /\ \E i \in 1..Len(last.item.pieChart) : last.item.pieChart[i].value = 0
    /\ \E i \in 1..Len(last.item.pieChart) : last.item.pieChart[i].value >= 2

----------------------------------------------------------------------------
(* search() over stores of every content (specification SpecSearch) *)

\* greatest limit passed to search()
MaxLimit == 2

SearchRanges ==
    { AllKeys,
      PrefixRange(PadNum(2024, 4) \o Dash \o PadNum(1, 2) \o Dash),
      KeyRange(toISODate([y |-> 2024, m |-> 1, d |-> 15]),
               toISODate([y |-> 2024, m |-> 2, d |-> 1]), TRUE, FALSE) }

SearchParams ==
    [range : SearchRanges, limit : 0..MaxLimit, direction : {"", "next", "prev"},
     filter : Filters]

\* search(storeName, searchParams) without an index; the outcome keeps the
\* parameters, the resolved list and the number of records scanned
SearchCall(storeName, params) ==
    /\ db # NoDb
    /\ LET scan == SearchScan(stores[storeName], params)
       IN last' = Outcome("search", storeName, TRUE, params, <<>>, scan.results,
                          scan.scanned)
    /\ UNCHANGED <<stores, upd, cleanup, db, live, calls, opened, call, obs, doc,
                   imp, flow, timer>>

InitSearch ==
    /\ stores \in { [s \in StoreNames |-> IF s = DAILY_REPORTS_STORE THEN D ELSE {}] :
                      D \in StoreContents(DailyItems) }
    /\ last = NoOutcome
    /\ upd = IdleUpdaters
    /\ cleanup = IdleCleanup
    /\ db = 1
    /\ live = {1}
    /\ calls = IdleCalls
    /\ opened = 1
    /\ call = IdleCall
    /\ obs = NoObserver
    /\ doc = NoDoc
    /\ imp = IdleImport
    /\ flow = IdleFlows
    /\ timer = IdleTimer

NextSearch == \E params \in SearchParams : SearchCall(DAILY_REPORTS_STORE, params)

SpecSearch == InitSearch /\ [][NextSearch]_vars

\* the records of the searched store inside the range that satisfy the filter
Matching == { r \in stores[last.store] :
                InRange(last.item.range, KeyOf(r)) /\ FilterPasses(last.item.filter, r) }

\* a is visited before b by a cursor of the direction asked for
VisitedBefore(a, b) ==
    IF last.item.direction = "prev" THEN KeyLess(KeyOf(b), KeyOf(a))
    ELSE KeyLess(KeyOf(a), KeyOf(b))

\* C16: search returns, in cursor order of the direction (ascending by default), the
\* records inside the range that pass the filter; with a limit it returns exactly
\* the first `limit` of them (all if fewer exist), rejected records not counting,
\* and the scan ends at the record that completes the limit.
C16_SearchFilterLimit ==
    last.op = "search" =>
        LET res == last.list
            limit == last.item.limit
            inRange == { r \in stores[last.store] : InRange(last.item.range, KeyOf(r)) }
        IN /\ \A i \in 1..Len(res) : res[i] \in Matching
           /\ \A i, j \in 1..Len(res) : i < j => VisitedBefore(res[i], res[j])
           /\ Len(res) = IF limit # 0 /\ limit < Cardinality(Matching)
                         THEN limit ELSE Cardinality(Matching)
           /\ \A r \in Matching :
                  (\A i \in 1..Len(res) : res[i] # r)
                      => \A i \in 1..Len(res) : VisitedBefore(res[i], r)
           /\ last.n = IF limit # 0 /\ Len(res) = limit
                       THEN Cardinality({ r \in inRange :
                                r = res[Len(res)] \/ VisitedBefore(r, res[Len(res)]) })
                       ELSE Cardinality(inRange)

\* a descending search with a filter and a limit: a rejected record was passed over
\* without counting, and the scan stopped with matching records still ahead
C16_Witness ==
    /\ last.op = "search"
    /\ last.item.direction = "prev"
    /\ last.item.filter # "none"
    /\ last.item.limit # 0
    /\ Len(last.list) = last.item.limit
    /\ last.n > Len(last.list)
    /\ Cardinality(Matching) > last.item.limit

----------------------------------------------------------------------------
(* fullTextSearch: scoring the records of a store against a query *)

\* scores are sums of quotients 1 - distance / maxLength: exact fractions num / den
Whole(n) == [num |-> n, den |-> 1]
RatAdd(a, b) == [num |-> a.num * b.den + b.num * a.den, den |-> a.den * b.den]
RatLess(a, b) == a.num * b.den < b.num * a.den
RatEq(a, b) == a.num * b.den = b.num * a.den

\* String.prototype.toLowerCase on the letters A-Z
toLowerCase(text) ==
    [i \in 1..Len(text) |-> IF text[i] \in 65..90 THEN text[i] + 32 ELSE text[i]]

\* \s of the characters used: tab, line feed, vertical tab, form feed, return, space
IsWhitespace(c) == c \in {9, 10, 11, 12, 13, 32}

\* text.split(/\s+/): a run of whitespace separates; a leading or trailing run
\* leaves an empty string at that end
RECURSIVE SplitFrom(_, _, _, _)
SplitFrom(text, i, current, out) ==
    IF i > Len(text) THEN Append(out, current)
    ELSE IF IsWhitespace(text[i])
         THEN IF i > 1 /\ IsWhitespace(text[i - 1])
              THEN SplitFrom(text, i + 1, current, out)
              ELSE SplitFrom(text, i + 1, <<>>, Append(out, current))
         ELSE SplitFrom(text, i + 1, Append(current, text[i]), out)

SplitWhitespace(text) == SplitFrom(text, 1, <<>>, <<>>)

\* !query || query.trim() === ""
IsBlank(query) == \A i \in 1..Len(query) : IsWhitespace(query[i])

\* options.caseSensitive ? text : text.toLowerCase()
Processed(text, options) == IF options.caseSensitive THEN text ELSE toLowerCase(text)

NonEmpty(term) == Len(term) > 0

\* processedQuery.split(/\s+/).filter((term) => term.length > 0)
QueryTerms(query, options) == SelectSeq(SplitWhitespace(Processed(query, options)), NonEmpty)

\* String.prototype.includes, scanning the start positions from the left
RECURSIVE IncludesFrom(_, _, _)
IncludesFrom(text, term, i) ==
    IF i + Len(term) - 1 > Len(text) THEN FALSE
    ELSE IF SubSeq(text, i, i + Len(term) - 1) = term THEN TRUE
    ELSE IncludesFrom(text, term, i + 1)

Includes(text, term) == IncludesFrom(text, term, 1)

\* \w
IsWordChar(c) == c \in (48..57) \cup (65..90) \cup (97..122) \cup {95}

\* \b between the characters i and i + 1 of text
WordBoundary(text, i) ==
    (i >= 1 /\ IsWordChar(text[i])) # (i < Len(text) /\ IsWordChar(text[i + 1]))

\* new RegExp("\\b" + term + "\\b").test(text), for a term without characters that
\* are special in a regular expression
RECURSIVE WholeWordFrom(_, _, _)
WholeWordFrom(text, term, i) ==
    IF i + Len(term) - 1 > Len(text) THEN FALSE
    ELSE IF /\ SubSeq(text, i, i + Len(term) - 1) = term
            /\ WordBoundary(text, i - 1)
            /\ WordBoundary(text, i + Len(term) - 1)
         THEN TRUE
         ELSE WholeWordFrom(text, term, i + 1)

getExactMatchScore(text, term, options) ==
    LET processedText == Processed(text, options)
    IN IF options.matchWholeWord
       THEN (IF WholeWordFrom(processedText, term, 1) THEN 1 ELSE 0)
       ELSE (IF Includes(processedText, term) THEN 1 ELSE 0)

Min3(a, b, c) == Min2(a, Min2(b, c))

\* one row matrix[i][0..b.length] from the row above; position j + 1 holds column j
RECURSIVE FillRow(_, _, _, _)
FillRow(above, ch, b, row) ==
    IF Len(row) = Len(b) + 1 THEN row
    ELSE LET j == Len(row)
             cost == IF ch = b[j] THEN 0 ELSE 1
         IN FillRow(above, ch, b,
                    Append(row, Min3(above[j + 1] + 1, row[j] + 1, above[j] + cost)))

RECURSIVE FillMatrix(_, _, _, _)
FillMatrix(a, b, i, above) ==
    IF i > Len(a) THEN above[Len(b) + 1]
    ELSE FillMatrix(a, b, i + 1, FillRow(above, a[i], b, <<i>>))

levenshteinDistance(a, b) == FillMatrix(a, b, 1, [j \in 1..(Len(b) + 1) |-> j - 1])

\* the threshold used when the option is absent or 0: 0.7
DefaultThreshold == [num |-> 7, den |-> 10]

\* a threshold taken as given, 0 when the option is absent
FuzzyThreshold_noDefault(options) ==
    IF options.fuzzyMatchThreshold = Undefined THEN Whole(0)
    ELSE options.fuzzyMatchThreshold

\* options.fuzzyMatchThreshold || 0.7
FuzzyThreshold(options) ==
    IF options.fuzzyMatchThreshold = Undefined THEN DefaultThreshold
    ELSE IF options.fuzzyMatchThreshold.num = 0 THEN DefaultThreshold
    ELSE options.fuzzyMatchThreshold

\* 1 - distance / maxLength
Similarity(word, term) ==
    LET maxLength == IF Len(word) > Len(term) THEN Len(word) ELSE Len(term)
    IN [num |-> maxLength - levenshteinDistance(word, term), den |-> maxLength]

\* the loop over the words of getFuzzyMatchScore
RECURSIVE BestFrom(_, _, _, _, _)
BestFrom(words, i, term, threshold, bestScore) ==
    IF i > Len(words) THEN bestScore
    ELSE IF Len(words[i]) < 3 THEN BestFrom(words, i + 1, term, threshold, bestScore)
    ELSE LET similarityScore == Similarity(words[i], term)
         IN BestFrom(words, i + 1, term, threshold,
                     IF /\ ~RatLess(similarityScore, threshold)
                        /\ RatLess(bestScore, similarityScore)
                     THEN similarityScore ELSE bestScore)

getFuzzyMatchScore(text, term, options) ==
    IF Len(term) <= 3 THEN Whole(getExactMatchScore(text, term, options))
    ELSE BestFrom(SplitWhitespace(Processed(text, options)), 1, term,
                  FuzzyThreshold(options), Whole(0))

\* field.split(".").reduce(...) for a field name without dots: the property, or ""
FieldValue(item, field) == IF field \in DOMAIN item THEN item[field] ELSE <<>>

\* typeof fieldValue === "string": every property of a report but data is a string
IsStringField(item, field) == field \notin DOMAIN item \/ field # "data"

\* for (const term of queryTerms) totalScore += ...
RECURSIVE TermScores(_, _, _, _)
TermScores(text, terms, options, totalScore) ==
    IF terms = <<>> THEN totalScore
    ELSE TermScores(text, Tail(terms), options,
            RatAdd(totalScore,
                   IF options.fuzzyMatch
                   THEN getFuzzyMatchScore(text, Head(terms), options)
                   ELSE Whole(getExactMatchScore(text, Head(terms), options))))

\* a score that counts a field once when any term matches it
RECURSIVE TotalScore_oncePerField(_, _, _, _, _)
TotalScore_oncePerField(item, fields, terms, options, totalScore) ==
    IF fields = <<>> THEN totalScore
    ELSE TotalScore_oncePerField(item, Tail(fields), terms, options,
            IF IsStringField(item, Head(fields))
               /\ TermScores(FieldValue(item, Head(fields)), terms, options, Whole(0)).num > 0
            THEN RatAdd(totalScore, Whole(1))
            ELSE totalScore)

\* for (const field of fields) ...
RECURSIVE TotalScore(_, _, _, _, _)
TotalScore(item, fields, terms, options, totalScore) ==
    IF fields = <<>> THEN totalScore
    ELSE TotalScore(item, Tail(fields), terms, options,
            IF IsStringField(item, Head(fields))
            THEN TermScores(FieldValue(item, Head(fields)), terms, options, totalScore)
            ELSE totalScore)

\* Array.prototype.sort((a, b) => b.score - a.score): stable, score descending
RECURSIVE InsertByScore(_, _)
InsertByScore(sorted, a) ==
    IF sorted = <<>> THEN <<a>>
    ELSE IF ~RatLess(Head(sorted).score, a.score)
         THEN <<Head(sorted)>> \o InsertByScore(Tail(sorted), a)
         ELSE <<a>> \o sorted

RECURSIVE SortByScoreDesc(_)
SortByScoreDesc(results) ==
    IF results = <<>> THEN <<>>
    ELSE InsertByScore(SortByScoreDesc(SubSeq(results, 1, Len(results) - 1)),
                       results[Len(results)])

HasScore(result) == result.score.num > 0

\* fullTextSearch(storeName, query, fields, options) on the records S of the store;
\* limit 0 stands for no limit
fullTextSearch(S, query, fields, options) ==
    LET items == SortedByKey(S)
    IN IF IsBlank(query)
       THEN [i \in 1..Len(items) |-> [item |-> items[i], score |-> Whole(0)]]
       ELSE LET queryTerms == QueryTerms(query, options)
                results == [i \in 1..Len(items) |->
                               [item |-> items[i],
                                score |-> TotalScore(items[i], fields, queryTerms,
                                                     options, Whole(0))]]
                sortedResults == SortByScoreDesc(SelectSeq(results, HasScore))
            IN IF options.limit > 0
               THEN SubSeq(sortedResults, 1, Min2(options.limit, Len(sortedResults)))
               ELSE sortedResults

----------------------------------------------------------------------------
(* fullTextSearch over stores, queries and options (specification SpecText) *)

\* "To do"
ShortWordsTitle == <<84, 111, 32, 100, 111>>

\* two generated daily reports and one whose title was edited to two short words
TextItems ==
    { DailyReportOf(toISODate([y |-> 2024, m |-> 1, d |-> 15]),
                    generateReportData(ProcessedOne)),
      DailyReportOf(toISODate([y |-> 2024, m |-> 1, d |-> 31]),
                    generateReportData(ProcessedOne)),
      [DailyReportOf(toISODate([y |-> 2024, m |-> 2, d |-> 1]),
                     generateReportData(ProcessedOne))
          EXCEPT !.title = ShortWordsTitle] }

Queries ==
    { <<100, 97, 105, 108, 121>>,                             \* "daily"
      <<68, 97, 105, 108, 121, 32>>
          \o toISODate([y |-> 2024, m |-> 1, d |-> 15]),      \* "Daily 2024-01-15"
      <<114, 101, 112, 111>>,                                 \* "repo"
      <<114, 101, 112, 111, 114, 116, 115>>,                  \* "reports"
      <<100, 111, 110, 101>>,                                 \* "done"
      <<100, 105, 97, 108, 121, 32, 32, 100, 111>>,           \* "dialy  do"
      <<32, 32>> }                                            \* "  "

FieldLists == { <<"title">>, <<"title", "date">>, <<"data", "note", "title">> }

\* fuzzyMatchThreshold: absent, 0 or 0.5
Thresholds == { Undefined, Whole(0), [num |-> 1, den |-> 2] }

SearchOptions ==
    [limit : 0..MaxLimit, caseSensitive : BOOLEAN, matchWholeWord : BOOLEAN,
     fuzzyMatch : BOOLEAN, fuzzyMatchThreshold : Thresholds]

\* the call resolves: getAll, scoring, filter, sort and limit
FullTextSearch ==
    /\ db # NoDb
    /\ call.pc = "called"
    /\ last' = Outcome("fullTextSearch", DAILY_REPORTS_STORE, TRUE, Undefined, <<>>,
                       fullTextSearch(stores[DAILY_REPORTS_STORE], call.query,
                                      call.fields, call.options), 0)
    /\ call' = [call EXCEPT !.pc = "returned"]
    /\ UNCHANGED <<stores, upd, cleanup, db, live, calls, opened, obs, doc,
                   imp, flow, timer>>

InitText ==
    /\ stores \in { [s \in StoreNames |-> IF s = DAILY_REPORTS_STORE THEN D ELSE {}] :
                      D \in StoreContents(TextItems) }
    /\ call \in [pc : {"called"}, query : Queries, fields : FieldLists,
                 options : SearchOptions]
    /\ last = NoOutcome
    /\ upd = IdleUpdaters
    /\ cleanup = IdleCleanup
    /\ db = 1
    /\ live = {1}
    /\ calls = IdleCalls
    /\ opened = 1
    /\ obs = NoObserver
    /\ doc = NoDoc
    /\ imp = IdleImport
    /\ flow = IdleFlows
    /\ timer = IdleTimer

NextText == FullTextSearch

SpecText == InitText /\ [][NextText]_vars

Returned == call.pc = "returned" /\ ~IsBlank(call.query)

Terms == QueryTerms(call.query, call.options)

\* the term occurs in the text: somewhere, or as a whole word when that is asked
\* for; letter case counts only in a case-sensitive search
Occurs(term, text) ==
    LET t == Processed(text, call.options)
    IN \E i \in 1..Len(t) :
           /\ i + Len(term) - 1 <= Len(t)
           /\ \A k \in 1..Len(term) : t[i + k - 1] = term[k]
           /\ call.options.matchWholeWord =>
                  WordBoundary(t, i - 1) /\ WordBoundary(t, i + Len(term) - 1)

\* number of (field, query term) pairs of which the term occurs in the string field
PairCount(item) ==
    Cardinality({ pair \in (1..Len(call.fields)) \X (1..Len(Terms)) :
                    /\ IsStringField(item, call.fields[pair[1]])
                    /\ Occurs(Terms[pair[2]], FieldValue(item, call.fields[pair[1]])) })

RECURSIVE RatSum(_)
RatSum(scores) ==
    IF scores = <<>> THEN Whole(0) ELSE RatAdd(Head(scores), RatSum(Tail(scores)))

\* the greatest similarity of the term to one of the words, counted only if it is at
\* least the threshold
BestSimilarity(words, term, threshold) ==
    LET admitted == { i \in 1..Len(words) :
                        /\ ~RatLess(Similarity(words[i], term), threshold)
                        /\ Similarity(words[i], term).num > 0 }
    IN IF admitted = {} THEN Whole(0)
       ELSE Similarity(words[CHOOSE i \in admitted :
                               \A j \in admitted :
                                   ~RatLess(Similarity(words[i], term),
                                            Similarity(words[j], term))], term)

\* the score of a term against a field as C18 states it: every word of the field
\* takes part, and the threshold is the option's value (0.7 when absent)
ScoreOverEveryWord(text, term) ==
    IF Len(term) <= 3 THEN Whole(getExactMatchScore(text, term, call.options))
    ELSE BestSimilarity(SplitWhitespace(Processed(text, call.options)), term,
                        IF call.options.fuzzyMatchThreshold = Undefined
                        THEN DefaultThreshold
                        ELSE call.options.fuzzyMatchThreshold)

LongEnough(word) == Len(word) >= 3

\* the same with the words of fewer than 3 characters left out and a threshold of
\* 0 replaced by 0.7 like an absent one
ScoreOverLongWords(text, term) ==
    IF Len(term) <= 3 THEN Whole(getExactMatchScore(text, term, call.options))
    ELSE BestSimilarity(
             SelectSeq(SplitWhitespace(Processed(text, call.options)), LongEnough),
             term,
             IF call.options.fuzzyMatchThreshold = Undefined
                \/ RatEq(call.options.fuzzyMatchThreshold, Whole(0))
             THEN DefaultThreshold
             ELSE call.options.fuzzyMatchThreshold)

\* the (field, term) pairs of a call, numbered field by field
PairField(k) == call.fields[((k - 1) \div Len(Terms)) + 1]
PairTerm(k) == Terms[((k - 1) % Len(Terms)) + 1]

TotalOverEveryWord(item) ==
    RatSum([k \in 1..(Len(call.fields) * Len(Terms)) |->
               IF IsStringField(item, PairField(k))
               THEN ScoreOverEveryWord(FieldValue(item, PairField(k)), PairTerm(k))
               ELSE Whole(0)])

TotalOverLongWords(item) ==
    RatSum([k \in 1..(Len(call.fields) * Len(Terms)) |->
               IF IsStringField(item, PairField(k))
               THEN ScoreOverLongWords(FieldValue(item, PairField(k)), PairTerm(k))
               ELSE Whole(0)])

FuzzyReturned == Returned /\ call.options.fuzzyMatch

ResultOf(r) == { i \in 1..Len(last.list) : last.list[i].item = r }

\* C18 as stated: in fuzzy mode a term longer than 3 characters scores, against a
\* field, the greatest similarity over every whitespace-separated word of the
\* field if that is at least fuzzyMatchThreshold, and 0 otherwise; a shorter term
\* scores by exact matching.  A record's score is the sum of these over its
\* (field, term) pairs, and the records of positive score are the ones returned.
C18_FuzzyEveryWord ==
    FuzzyReturned =>
        \A r \in stores[DAILY_REPORTS_STORE] :
            /\ \A i \in ResultOf(r) : RatEq(last.list[i].score, TotalOverEveryWord(r))
            /\ call.options.limit = 0 =>
                   (ResultOf(r) # {} <=> TotalOverEveryWord(r).num > 0)

\* C18, amended: the greatest similarity is taken over the words of at least 3
\* characters, and the threshold is fuzzyMatchThreshold, or 0.7 when that is absent
\* or 0; a term of 3 characters or fewer scores by exact matching.
C18_FuzzyLongWords ==
    FuzzyReturned =>
        \A r \in stores[DAILY_REPORTS_STORE] :
            /\ \A i \in ResultOf(r) : RatEq(last.list[i].score, TotalOverLongWords(r))
            /\ call.options.limit = 0 =>
                   (ResultOf(r) # {} <=> TotalOverLongWords(r).num > 0)

\* a fuzzy search with a threshold of 0.5: a record is returned for a word that is
\* similar to a long term without being equal to it, next to a short term scored
\* by exact matching, and a title of short words is in the store
C18_Witness ==
    /\ FuzzyReturned
    /\ call.options.fuzzyMatchThreshold = [num |-> 1, den |-> 2]
    /\ \E i \in 1..Len(Terms) : Len(Terms[i]) > 3
    /\ \E i \in 1..Len(Terms) : Len(Terms[i]) <= 3
    /\ \E i \in 1..Len(last.list) :
           /\ last.list[i].score.num % last.list[i].score.den # 0
           /\ last.list[i].item.title # ShortWordsTitle
    /\ \E i \in 1..Len(last.list) : last.list[i].item.title = ShortWordsTitle

----------------------------------------------------------------------------
(* observe(): change notification (specification SpecObserve) *)

\* observe(callback): for every store a transaction is opened, and add, put, delete
\* and clear are replaced on the store object of that transaction
Observe ==
    /\ ~obs.observing
    /\ IF db = NoDb
       THEN \* throw new Error("Database not initialized")
            /\ obs' = obs
            /\ last' = Outcome("observe", DAILY_REPORTS_STORE, FALSE, Undefined, <<>>,
                               <<>>, 0)
       ELSE /\ obs' = [obs EXCEPT
                          !.observing = TRUE,
                          !.patched = @ \cup { StoreObject("observe", s) : s \in StoreNames }]
            /\ last' = Outcome("observe", DAILY_REPORTS_STORE, TRUE, Undefined, <<>>,
                               <<>>, 0)
    /\ UNCHANGED <<stores, upd, cleanup, db, live, calls, opened, call, doc,
                   imp, flow, timer>>

\* the function observe() returned: for every store a transaction is opened, and the
\* original methods are assigned to the store object of that transaction
Dispose ==
    /\ obs.observing
    /\ obs' = [obs EXCEPT
                  !.observing = FALSE,
                  !.patched = @ \ { StoreObject("dispose", s) : s \in StoreNames }]
    /\ last' = Outcome("dispose", DAILY_REPORTS_STORE, TRUE, Undefined, <<>>, <<>>, 0)
    /\ UNCHANGED <<stores, upd, cleanup, db, live, calls, opened, call, doc,
                   imp, flow, timer>>

\* the records written while an observer is installed
ObservedItems(storeName) ==
    IF storeName = DAILY_REPORTS_STORE
    THEN { DailyReportOf(id, generateReportData(ProcessedOne)) : id \in UpdateKeys }
    ELSE { CHOOSE item \in YearlyItems : TRUE }

InitObserve == Init

NextObserve ==
    \/ Observe
    \/ Dispose
    \/ \E s \in StoreNames : \E item \in ObservedItems(s) : Add(s, item)
    \/ \E s \in StoreNames : \E item \in ObservedItems(s) : Put(s, item)
    \/ \E s \in StoreNames : \E item \in ObservedItems(s) : Delete(s, KeyOf(item))
    \/ \E s \in StoreNames : Clear(s)

SpecObserve == InitObserve /\ [][NextObserve]_vars

\* this step is an add, put, delete or clear that succeeded
WriteSucceeds ==
    /\ <<stores, last>>' # <<stores, last>>
    /\ last'.op \in {"add", "put", "delete", "clear"}
    /\ last'.ok

\* this step invoked the callback once, with the type and store of the write and
\* its key and value where the write has them
CallbackInvoked ==
    /\ Len(obs'.events) = Len(obs.events) + 1
    /\ SubSeq(obs'.events, 1, Len(obs.events)) = obs.events
    /\ LET event == obs'.events[Len(obs'.events)]
       IN /\ event.type = last'.op
          /\ event.storeName = last'.store
          /\ last'.op \in {"add", "put", "delete"} => event.key = last'.key
          /\ last'.op \in {"add", "put"} => event.value = last'.item

\* C19: while an observer is installed and not disposed, every add, put, delete and
\* clear that succeeds through the handle invokes the callback once with the
\* matching type, store name, key and value; once the disposer has been called no
\* write invokes it.
C19_WritesNotifyObserver ==
    [][WriteSucceeds =>
          IF obs.observing THEN CallbackInvoked ELSE obs'.events = obs.events]_vars

----------------------------------------------------------------------------
(* exportDatabase / importDatabase (specification SpecImport) *)

\* one entry data[storeName] of an import document: a list of records, or a value
\* that is not an array
ListOf(items) == [isArray |-> TRUE, items |-> items]
NotAnArray == [isArray |-> FALSE, items |-> <<>>]

RecordsOf(list) == { list[i] : i \in 1..Len(list) }

\* two items of the list have the same key
HasDuplicateKey(list) ==
    \E i, j \in 1..Len(list) : i < j /\ KeyOf(list[i]) = KeyOf(list[j])

\* the records moved in and out: two daily reports, a second version of the first
\* one, and a yearly report
ImportItems(storeName) ==
    IF storeName = DAILY_REPORTS_STORE
    THEN ObservedItems(DAILY_REPORTS_STORE)
         \cup { DailyReportOf(toISODate([y |-> 2024, m |-> 1, d |-> 15]),
                              generateReportData(ProcessedTwo)) }
    ELSE ObservedItems(YEARLY_REPORTS_STORE)

\* the lists a document gives for a store: empty, one record, two records out of key
\* order, two records with the same key, and a non-array
ImportLists(storeName) ==
    IF storeName = DAILY_REPORTS_STORE
    THEN LET first == DailyReportOf(toISODate([y |-> 2024, m |-> 1, d |-> 15]),
                                    generateReportData(ProcessedOne))
             again == DailyReportOf(toISODate([y |-> 2024, m |-> 1, d |-> 15]),
                                    generateReportData(ProcessedTwo))
             second == DailyReportOf(toISODate([y |-> 2024, m |-> 1, d |-> 31]),
                                     generateReportData(ProcessedOne))
         IN { ListOf(<<>>), ListOf(<<first>>), ListOf(<<second, first>>),
              ListOf(<<first, again>>), NotAnArray }
    ELSE { ListOf(<<>>), NotAnArray }
         \cup { ListOf(<<item>>) : item \in ImportItems(YEARLY_REPORTS_STORE) }

\* documents { [storeName]: any[] } naming any of the stores
ImportDocs ==
    UNION { { data \in [named -> UNION { ImportLists(s) : s \in named }] :
                \A s \in named : data[s] \in ImportLists(s) } : named \in SUBSET StoreNames }

\* exportDatabase(): one readonly transaction, getAll() of every store
ExportDatabase ==
    /\ db # NoDb
    /\ LET result == [s \in StoreNames |-> ListOf(SortedByKey(stores[s]))]
       IN /\ doc' = [exported |-> TRUE, data |-> result, from |-> stores]
          /\ last' = Outcome("exportDatabase", DAILY_REPORTS_STORE, TRUE, result, <<>>,
                             <<>>, 0)
    /\ UNCHANGED <<stores, upd, cleanup, db, live, calls, opened, call, obs,
                   imp, flow, timer>>

\* an import that adds the items without clearing the store first
ImportDatabase_withoutClear(data) ==
    /\ db # NoDb
    /\ DOMAIN data # {}
    /\ stores' = [s \in StoreNames |->
                     IF s \in DOMAIN data /\ data[s].isArray
                     THEN { r \in stores[s] :
                              \A i \in 1..Len(data[s].items) :
                                  KeyOf(data[s].items[i]) # KeyOf(r) }
                          \cup RecordsOf(data[s].items)
                     ELSE stores[s]]
    /\ last' = [Outcome("importDatabase", DAILY_REPORTS_STORE, TRUE, data, <<>>, <<>>, 0)
                   EXCEPT !.prior = stores]
    /\ UNCHANGED <<upd, cleanup, db, live, calls, opened, call, obs, doc,
                   imp, flow, timer>>

\* importDatabase(data): one readwrite transaction over the stores named in data;
\* every store with a list is cleared and the items are added.  history: the
\* outcome keeps the contents the stores had before, in `prior`
ImportDatabase(data) ==
    /\ db # NoDb
    /\ LET storeNames == DOMAIN data
           listed == { s \in storeNames : data[s].isArray }
       IN IF storeNames = {}
          THEN \* db.transaction([]) throws InvalidAccessError
               /\ stores' = stores
               /\ last' = [Outcome("importDatabase", DAILY_REPORTS_STORE, FALSE, data,
                                   <<>>, <<>>, 0) EXCEPT !.prior = stores]
          ELSE IF \E s \in listed : HasDuplicateKey(data[s].items)
          THEN \* store.add fails with ConstraintError: the call rejects and the
               \* transaction aborts, undoing the clears and adds
               /\ stores' = stores
               /\ last' = [Outcome("importDatabase", DAILY_REPORTS_STORE, FALSE, data,
                                   <<>>, <<>>, 0) EXCEPT !.prior = stores]
          ELSE /\ stores' = [s \in StoreNames |->
                                IF s \in listed THEN RecordsOf(data[s].items)
                                ELSE stores[s]]
               /\ last' = [Outcome("importDatabase", DAILY_REPORTS_STORE, TRUE, data,
                                   <<>>, <<>>, 0) EXCEPT !.prior = stores]
    /\ UNCHANGED <<upd, cleanup, db, live, calls, opened, call, obs, doc,
                   imp, flow, timer>>

InitImport == Init

NextImport ==
    \/ ExportDatabase
    \/ \E data \in ImportDocs \cup (IF doc.exported THEN {doc.data} ELSE {}) :
           ImportDatabase(data)
    \/ \E s \in StoreNames : \E item \in ImportItems(s) : Put(s, item)
    \/ \E s \in StoreNames : \E item \in ImportItems(s) : Delete(s, KeyOf(item))

SpecImport == InitImport /\ [][NextImport]_vars

\* C20: when importDatabase(data) resolves, every store named in data with a list
\* holds exactly the records of the list (none for an empty list) and every other
\* store is unchanged; importing the document exportDatabase() returned restores
\* the contents all stores had when it was exported.
C20_ImportReplaces ==
    [][(last'.op = "importDatabase" /\ last'.ok) =>
          LET data == last'.item
          IN /\ \A s \in StoreNames :
                    IF s \in DOMAIN data /\ data[s].isArray
                    THEN /\ stores'[s] = RecordsOf(data[s].items)
                         /\ Cardinality(stores'[s]) = Len(data[s].items)
                    ELSE stores'[s] = stores[s]
             /\ (doc.exported /\ data = doc.data) => stores' = doc.from]_vars

\* an exported document imported into a later, different state: the exported state
\* is back, and a store that was exported empty and filled since is empty again
C20_Witness ==
    /\ last.op = "importDatabase"
    /\ last.ok
    /\ doc.exported
    /\ last.item = doc.data
    /\ last.prior # doc.from
    /\ stores = doc.from
    /\ \E s \in StoreNames : doc.from[s] # {}
    /\ \E s \in StoreNames : doc.data[s].items = <<>> /\ last.prior[s] # {}

----------------------------------------------------------------------------
(* addMultiple, exportAllReports / importReports (specification SpecReports) *)

\* the items.forEach(item => store.add(item)) of addMultiple, from item i on: the
\* adds run in order in the one transaction, and the first that finds its key
\* present fails with ConstraintError
RECURSIVE AddEach(_, _, _)
AddEach(S, items, i) ==
    IF i > Len(items) THEN [ok |-> TRUE, store |-> S]
    ELSE IF HasKey(S, KeyOf(items[i])) THEN [ok |-> FALSE, store |-> S]
    ELSE AddEach(S \cup {items[i]}, items, i + 1)

\* a bulk add whose failed transaction keeps the adds made before the failure
addMultiple_keepsEarlier(S, items) == AddEach(S, items, 1)

\* addMultiple(storeName, items) on a store holding S: the failed request's error
\* reaches transaction.onerror, which rejects, and the transaction aborts, undoing
\* its adds; transaction.oncomplete resolves
addMultiple(S, items) ==
    LET added == AddEach(S, items, 1)
    IN IF added.ok THEN added ELSE [ok |-> FALSE, store |-> S]

\* addMultiple(storeName, items) called on the handle, before any import.  history:
\* the outcome keeps the contents the store had before, in `prior`
AddMultiple(storeName, items) ==
    /\ db # NoDb
    /\ imp.pc = "idle"
    /\ LET result == addMultiple(stores[storeName], items)
       IN /\ stores' = [stores EXCEPT ![storeName] = result.store]
          /\ last' = [Outcome("addMultiple", storeName, result.ok, Undefined, <<>>,
                              items, 0) EXCEPT !.prior = stores[storeName]]
    /\ UNCHANGED <<upd, cleanup, db, live, calls, opened, call, obs, doc,
                   imp, flow, timer>>

\* the records of the report documents: two daily reports, a second version of the
\* first one, a yearly report and a second version of it
ReportItems(storeName) ==
    IF storeName = DAILY_REPORTS_STORE
    THEN ImportItems(DAILY_REPORTS_STORE)
    ELSE LET yearly == CHOOSE item \in YearlyItems : TRUE
         IN {yearly, [yearly EXCEPT !.title = EditedTitle]}

\* the arrays a document gives for a store: empty, records with different ids, and
\* records two of which have the same id
ReportLists(storeName) ==
    IF storeName = DAILY_REPORTS_STORE
    THEN LET first == DailyReportOf(toISODate([y |-> 2024, m |-> 1, d |-> 15]),
                                    generateReportData(ProcessedOne))
             again == DailyReportOf(toISODate([y |-> 2024, m |-> 1, d |-> 15]),
                                    generateReportData(ProcessedTwo))
             second == DailyReportOf(toISODate([y |-> 2024, m |-> 1, d |-> 31]),
                                     generateReportData(ProcessedOne))
         IN { <<>>, <<second, again>>, <<second, first, again>> }
    ELSE LET yearly == CHOOSE item \in YearlyItems : TRUE
         IN { <<>>, <<yearly>>, <<yearly, [yearly EXCEPT !.title = EditedTitle]>> }

\* documents { dailyReports?: DailyReport[], yearlyReports?: YearlyReport[] }; the
\* property names are the store names
ReportDocs ==
    UNION { { data \in [named -> UNION { ReportLists(s) : s \in named }] :
                \A s \in named : data[s] \in ReportLists(s) } : named \in SUBSET StoreNames }

\* the test without the length: an empty array counts as provided
Provided_whenPresent(data, storeName) == storeName \in DOMAIN data

\* data.dailyReports && data.dailyReports.length > 0
Provided(data, storeName) == storeName \in DOMAIN data /\ Len(data[storeName]) > 0

\* an export that reads the daily store only
ExportAllReports_dailyOnly ==
    /\ db # NoDb
    /\ ~doc.exported
    /\ imp.pc = "idle"
    /\ LET result == [s \in StoreNames |->
                         IF s = DAILY_REPORTS_STORE THEN SortedByKey(stores[s])
                         ELSE <<>>]
       IN /\ doc' = [exported |-> TRUE, data |-> result, from |-> stores]
          /\ last' = Outcome("exportAllReports", DAILY_REPORTS_STORE, TRUE, result,
                             <<>>, <<>>, 0)
    /\ UNCHANGED <<stores, upd, cleanup, db, live, calls, opened, call, obs,
                   imp, flow, timer>>

\* exportAllReports(): getAllDailyReports() and getAllYearlyReports(), each its own
\* readonly transaction (taken here once, before any import).  history: `from`
\* keeps the contents the stores had
ExportAllReports ==
    /\ db # NoDb
    /\ ~doc.exported
    /\ imp.pc = "idle"
    /\ LET result == [s \in StoreNames |-> SortedByKey(stores[s])]
       IN /\ doc' = [exported |-> TRUE, data |-> result, from |-> stores]
          /\ last' = Outcome("exportAllReports", DAILY_REPORTS_STORE, TRUE, result,
                             <<>>, <<>>, 0)
    /\ UNCHANGED <<stores, upd, cleanup, db, live, calls, opened, call, obs,
                   imp, flow, timer>>

\* where importReports goes after the part for storeName
AfterPart(data, storeName) ==
    IF storeName = DAILY_REPORTS_STORE /\ Provided(data, YEARLY_REPORTS_STORE)
    THEN "clearYearly" ELSE "resolved"

\* the store the import is working on
PartOf(pc) ==
    IF pc \in {"clearDaily", "addDaily"} THEN DAILY_REPORTS_STORE
    ELSE YEARLY_REPORTS_STORE

\* importReports(data) is called; it runs to its first await.  history: `before`
\* keeps the contents the stores had at the call, `failed` the part that rejected
ImportReports(data) ==
    /\ db # NoDb
    /\ imp.pc \in {"idle", "resolved", "rejected"}
    /\ imp' = [pc |-> IF Provided(data, DAILY_REPORTS_STORE) THEN "clearDaily"
                      ELSE AfterPart(data, DAILY_REPORTS_STORE),
               data |-> data, before |-> stores, failed |-> ""]
    /\ last' = NoOutcome
    /\ UNCHANGED <<stores, upd, cleanup, db, live, calls, opened, call, obs, doc,
                   flow, timer>>

\* await this.db.clear(store): a transaction of its own
ImportClear ==
    /\ imp.pc \in {"clearDaily", "clearYearly"}
    /\ stores' = [stores EXCEPT ![PartOf(imp.pc)] = {}]
    /\ imp' = [imp EXCEPT !.pc = IF imp.pc = "clearDaily" THEN "addDaily"
                                 ELSE "addYearly"]
    /\ UNCHANGED <<last, upd, cleanup, db, live, calls, opened, call, obs, doc,
                   flow, timer>>

\* an import whose failed bulk add puts both stores back as they were at the call
ImportAddMultiple_restoresAll ==
    /\ imp.pc \in {"addDaily", "addYearly"}
    /\ LET s == PartOf(imp.pc)
           result == addMultiple(stores[s], imp.data[s])
       IN /\ stores' = IF result.ok THEN [stores EXCEPT ![s] = result.store]
                        ELSE imp.before
          /\ imp' = IF result.ok
                    THEN [imp EXCEPT !.pc = AfterPart(imp.data, s)]
                    ELSE [imp EXCEPT !.pc = "rejected", !.failed = s]
    /\ UNCHANGED <<last, upd, cleanup, db, live, calls, opened, call, obs, doc,
                   flow, timer>>

\* await this.db.addMultiple(store, data[store]); when it rejects, importReports
\* rejects with the stores as its transactions left them
ImportAddMultiple ==
    /\ imp.pc \in {"addDaily", "addYearly"}
    /\ LET s == PartOf(imp.pc)
           result == addMultiple(stores[s], imp.data[s])
       IN /\ stores' = [stores EXCEPT ![s] = result.store]
          /\ imp' = IF result.ok
                    THEN [imp EXCEPT !.pc = AfterPart(imp.data, s)]
                    ELSE [imp EXCEPT !.pc = "rejected", !.failed = s]
    /\ UNCHANGED <<last, upd, cleanup, db, live, calls, opened, call, obs, doc,
                   flow, timer>>

\* a reader running beside the import: getAllDailyReports / getAllYearlyReports
GetAll(storeName) ==
    /\ db # NoDb
    /\ last' = Outcome("getAll", storeName, TRUE, Undefined, <<>>,
                       SortedByKey(stores[storeName]), 0)
    /\ UNCHANGED <<stores, upd, cleanup, db, live, calls, opened, call, obs, doc,
                   imp, flow, timer>>

\* the stores hold any of the report records when the behaviour starts
InitReports ==
    /\ stores \in { contents \in [StoreNames -> SUBSET (ReportItems(DAILY_REPORTS_STORE)
                                                      \cup ReportItems(YEARLY_REPORTS_STORE))] :
                      \A s \in StoreNames :
                          /\ contents[s] \in StoreContents(ReportItems(s))
                          /\ Cardinality(contents[s]) <= 1 }
    /\ last = NoOutcome
    /\ upd = IdleUpdaters
    /\ cleanup = IdleCleanup
    /\ db = 1
    /\ live = {1}
    /\ calls = IdleCalls
    /\ opened = 1
    /\ call = IdleCall
    /\ obs = NoObserver
    /\ doc = NoDoc
    /\ imp = IdleImport
    /\ flow = IdleFlows
    /\ timer = IdleTimer

NextReports ==
    \/ \E s \in StoreNames : \E items \in ReportLists(s) : AddMultiple(s, items)
    \/ ExportAllReports
    \/ \E data \in ReportDocs \cup (IF doc.exported THEN {doc.data} ELSE {}) :
           ImportReports(data)
    \/ ImportClear
    \/ ImportAddMultiple
    \/ \E s \in StoreNames : GetAll(s)

SpecReports == InitReports /\ [][NextReports]_vars

\* the import has settled
ImportSettled == imp.pc \in {"resolved", "rejected"}

\* the array the document gives for the store is absent or empty
NothingGiven(data, storeName) == storeName \notin DOMAIN data \/ data[storeName] = <<>>

\* C21: importReports(data) leaves a store as it was at the call when the array for
\* it is absent or empty, and when it resolves, a store with a non-empty array holds
\* exactly the records of the array.
C21_ImportReportsFrame ==
    ImportSettled =>
        \A s \in StoreNames :
            IF NothingGiven(imp.data, s) THEN stores[s] = imp.before[s]
            ELSE imp.pc = "resolved" => stores[s] = RecordsOf(imp.data[s])

\* a resolved import with an empty array for a store that holds records and a
\* non-empty array that replaced other records
C21_Witness ==
    /\ imp.pc = "resolved"
    /\ \E s \in StoreNames :
           /\ s \in DOMAIN imp.data /\ imp.data[s] = <<>>
           /\ stores[s] # {}
    /\ \E s \in StoreNames :
           /\ ~NothingGiven(imp.data, s)
           /\ imp.before[s] # {}
           /\ imp.before[s] \cap RecordsOf(imp.data[s]) = {}

C23_AllOrNothingPerStore ==
    /\ imp.pc = "rejected" => stores[imp.failed] = imp.before[imp.failed]
    /\ (imp.pc # "idle" /\ last.op = "getAll") =>
           \/ RecordsOf(last.list) = imp.before[last.store]
           \/ /\ ~NothingGiven(imp.data, last.store)
              /\ RecordsOf(last.list) = RecordsOf(imp.data[last.store])

\* C24: addMultiple(store, items) rejects and inserts nothing when an item's key is
\* in the store or is the key of another item of the batch; otherwise it resolves
\* and the store holds what it held and every item, the other store as it was.
C24_AddMultipleAtomic ==
    [][last'.op = "addMultiple" =>
          LET s == last'.store
              items == last'.list
              collides == \/ \E i \in 1..Len(items) : HasKey(stores[s], KeyOf(items[i]))
                          \/ \E i, j \in 1..Len(items) :
                                 i # j /\ KeyOf(items[i]) = KeyOf(items[j])
          IN /\ last'.ok = ~collides
             /\ stores' = IF collides THEN stores
                          ELSE [stores EXCEPT ![s] = @ \cup RecordsOf(items)]]_vars

\* a batch rejected for its last item, none of the earlier items inserted
C24_Witness ==
    /\ last.op = "addMultiple"
    /\ ~last.ok
    /\ Len(last.list) > 1
    /\ ~HasKey(last.prior, KeyOf(last.list[1]))
    /\ stores[last.store] = last.prior

\* C27 as stated: importing in any state the document exportAllReports produced
\* leaves both stores with the records they held at the export.
C27_RoundTrip ==
    (imp.pc = "resolved" /\ doc.exported /\ imp.data = doc.data) => stores = doc.from

\* C27: importing in any state the document exportAllReports produced leaves every
\* store that held records at the export with exactly those records, and a store
\* that was empty at the export as it was at the import.
C27_RoundTripOfFilledStores ==
    (imp.pc = "resolved" /\ doc.exported /\ imp.data = doc.data) =>
        \A s \in StoreNames :
            stores[s] = IF doc.from[s] # {} THEN doc.from[s] ELSE imp.before[s]

\* the exported document imported into a state where both stores differ from the
\* export: one restored, one exported empty and still filled
C27_Witness ==
    /\ imp.pc = "resolved"
    /\ doc.exported
    /\ imp.data = doc.data
    /\ \E s \in StoreNames :
           doc.from[s] # {} /\ imp.before[s] # doc.from[s] /\ imp.before[s] # {}
                            /\ stores[s] = doc.from[s]
    /\ \E s \in StoreNames : doc.from[s] = {} /\ stores[s] # {}

----------------------------------------------------------------------------
(* handleGenerateReport: saving the daily report and the yearly rollover
   (specification SpecRollover) *)

\* the daily report count at which the flow rolls the daily reports over into a
\* yearly report: `reportCount >= 365`, scaled down to stores of a few records
RolloverCount == 2

Flows == 1..NumFlows

\* getUserDate() at the call: a day whose report is stored when the behaviour
\* starts, and the day after
FlowDates == { toISODate([y |-> 2024, m |-> 1, d |-> 31]),
               toISODate([y |-> 2024, m |-> 2, d |-> 1]) }

\* the daily reports stored when the behaviour starts: one of the year before and
\* two of the flows' year
StoredReports ==
    { DailyReportOf(toISODate(date), generateReportData(ProcessedTwo)) :
        date \in { [y |-> 2023, m |-> 12, d |-> 31], [y |-> 2024, m |-> 1, d |-> 15],
                   [y |-> 2024, m |-> 1, d |-> 31] } }

\* dateString.substring(0, 4)
YearOf(dateString) == SubSeq(dateString, 1, 4)

\* handleGenerateReport(overwrite) is called with confirmOverwrite as its render
\* holds it; it runs to its first await.  history: `saved` tells that the flow's
\* own save succeeded, `merged` and `removed` keep the reports the rollover read
\* and the reports its clear removed
HandleGenerateReport(f, overwrite, confirmOverwrite, dateString) ==
    /\ db # NoDb
    /\ flow[f].pc = "idle"
    /\ flow' = [flow EXCEPT ![f] =
                   [pc |-> IF ~overwrite /\ ~confirmOverwrite THEN "check"
                           ELSE "save",
                    overwrite |-> overwrite,
                    dateString |-> dateString,
                    year |-> YearOf(dateString),
                    reportCount |-> 0,
                    yearlyReport |-> Undefined,
                    saved |-> FALSE, merged |-> {}, removed |-> {}]]
    /\ UNCHANGED <<stores, last, upd, cleanup, db, live, calls, opened, call, obs, doc,
                   imp, timer>>

\* existingReport = await reportDB.getDailyReport(dateString); a report found ends
\* the flow (setReportExists(true); return)
FlowCheck(f) ==
    /\ flow[f].pc = "check"
    /\ flow' = [flow EXCEPT ![f].pc =
                   IF HasKey(stores[DAILY_REPORTS_STORE], flow[f].dateString)
                   THEN "exists" ELSE "save"]
    /\ UNCHANGED <<stores, last, upd, cleanup, db, live, calls, opened, call, obs, doc,
                   imp, timer>>

\* the API key and activities tests and await callGroqAPI(...), which lie before
\* the save: the flow returns early without a key or activities, and a failed
\* request is caught; either way it ends without saving
FlowEndsEarly(f) ==
    /\ flow[f].pc = "save"
    /\ flow' = [flow EXCEPT ![f].pc = "ended"]
    /\ UNCHANGED <<stores, last, upd, cleanup, db, live, calls, opened, call, obs, doc,
                   imp, timer>>

\* the dailyReport the flow builds from the categorised activities
FlowReport(f) == DailyReportOf(flow[f].dateString, generateReportData(ProcessedOne))

\* a save that puts the report whether overwrite was given or not
FlowSave_alwaysPuts(f) ==
    /\ flow[f].pc = "save"
    /\ stores' = [stores EXCEPT ![DAILY_REPORTS_STORE] = StorePut(@, FlowReport(f))]
    /\ flow' = [flow EXCEPT ![f].pc = "count", ![f].saved = TRUE]
    /\ UNCHANGED <<last, upd, cleanup, db, live, calls, opened, call, obs, doc,
                   imp, timer>>

\* if (overwrite) await reportDB.updateDailyReport(dailyReport) (a put)
\* else await reportDB.addDailyReport(dailyReport) (an add, which rejects when the
\* id is stored: the flow ends in its catch)
FlowSave(f) ==
    /\ flow[f].pc = "save"
    /\ IF flow[f].overwrite
       THEN /\ stores' = [stores EXCEPT ![DAILY_REPORTS_STORE] = StorePut(@, FlowReport(f))]
            /\ flow' = [flow EXCEPT ![f].pc = "count", ![f].saved = TRUE]
       ELSE IF HasKey(stores[DAILY_REPORTS_STORE], flow[f].dateString)
       THEN /\ stores' = stores
            /\ flow' = [flow EXCEPT ![f].pc = "failed"]
       ELSE /\ stores' = [stores EXCEPT ![DAILY_REPORTS_STORE] = @ \cup {FlowReport(f)}]
            /\ flow' = [flow EXCEPT ![f].pc = "count", ![f].saved = TRUE]
    /\ UNCHANGED <<last, upd, cleanup, db, live, calls, opened, call, obs, doc,
                   imp, timer>>

\* a count test that rolls over only above the count
FlowCount_above(f) ==
    /\ flow[f].pc = "count"
    /\ LET reportCount == Cardinality(stores[DAILY_REPORTS_STORE])
       IN flow' = [flow EXCEPT ![f].reportCount = reportCount,
                               ![f].pc = IF reportCount > RolloverCount THEN "yearly"
                                         ELSE "done"]
    /\ UNCHANGED <<stores, last, upd, cleanup, db, live, calls, opened, call, obs, doc,
                   imp, timer>>

\* reportCount = await reportDB.getDailyReportCount(); if (reportCount >= 365)
FlowCount(f) ==
    /\ flow[f].pc = "count"
    /\ LET reportCount == Cardinality(stores[DAILY_REPORTS_STORE])
       IN flow' = [flow EXCEPT ![f].reportCount = reportCount,
                               ![f].pc = IF reportCount >= RolloverCount THEN "yearly"
                                         ELSE "done"]
    /\ UNCHANGED <<stores, last, upd, cleanup, db, live, calls, opened, call, obs, doc,
                   imp, timer>>

\* yearlyReport = await reportDB.generateYearlyReport(year), which throws when no
\* daily report of the year is stored
FlowGenerateYearly(f) ==
    /\ flow[f].pc = "yearly"
    /\ LET dailyReports == getDailyReportsByYear(stores[DAILY_REPORTS_STORE], flow[f].year)
           mergedData == mergeReportData([i \in 1..Len(dailyReports) |-> dailyReports[i].data])
       IN flow' = IF Len(dailyReports) = 0
                  THEN [flow EXCEPT ![f].pc = "failed"]
                  ELSE [flow EXCEPT ![f].pc = "addYearly",
                                    ![f].yearlyReport = YearlyReportOf(flow[f].year, mergedData),
                                    ![f].merged = RecordsOf(dailyReports)]
    /\ UNCHANGED <<stores, last, upd, cleanup, db, live, calls, opened, call, obs, doc,
                   imp, timer>>

\* await reportDB.addYearlyReport(yearlyReport): an add, which rejects when a
\* report of the year is stored
FlowAddYearly(f) ==
    /\ flow[f].pc = "addYearly"
    /\ IF HasKey(stores[YEARLY_REPORTS_STORE], KeyOf(flow[f].yearlyReport))
       THEN /\ stores' = stores
            /\ flow' = [flow EXCEPT ![f].pc = "failed"]
       ELSE /\ stores' = [stores EXCEPT ![YEARLY_REPORTS_STORE] =
                              @ \cup {flow[f].yearlyReport}]
            /\ flow' = [flow EXCEPT ![f].pc = "clear"]
    /\ UNCHANGED <<last, upd, cleanup, db, live, calls, opened, call, obs, doc,
                   imp, timer>>

\* await reportDB.db.clear(DAILY_REPORTS_STORE); the flow then finishes
FlowClear(f) ==
    /\ flow[f].pc = "clear"
    /\ stores' = [stores EXCEPT ![DAILY_REPORTS_STORE] = {}]
    /\ flow' = [flow EXCEPT ![f].pc = "done", ![f].removed = stores[DAILY_REPORTS_STORE]]
    /\ UNCHANGED <<last, upd, cleanup, db, live, calls, opened, call, obs, doc,
                   imp, timer>>

\* the daily store holds any of the stored reports when the behaviour starts, the
\* yearly store none
InitRollover ==
    /\ stores \in { [s \in StoreNames |-> IF s = DAILY_REPORTS_STORE THEN S ELSE {}] :
                      S \in SUBSET StoredReports }
    /\ last = NoOutcome
    /\ upd = IdleUpdaters
    /\ cleanup = IdleCleanup
    /\ db = 1
    /\ live = {1}
    /\ calls = IdleCalls
    /\ opened = 1
    /\ call = IdleCall
    /\ obs = NoObserver
    /\ doc = NoDoc
    /\ imp = IdleImport
    /\ flow = IdleFlows
    /\ timer = IdleTimer

NextRollover ==
    \E f \in Flows :
        \/ \E overwrite, confirmOverwrite \in BOOLEAN : \E dateString \in FlowDates :
               HandleGenerateReport(f, overwrite, confirmOverwrite, dateString)
        \/ FlowCheck(f)
        \/ FlowEndsEarly(f)
        \/ FlowSave(f)
        \/ FlowCount(f)
        \/ FlowGenerateYearly(f)
        \/ FlowAddYearly(f)
        \/ FlowClear(f)

SpecRollover == InitRollover /\ [][NextRollover]_vars

\* flow f takes this step, and not the step that calls it
FlowSteps(f) == flow'[f] # flow[f] /\ flow[f].pc # "idle"

\* the store holds a report whose id is the year of the date
HasReportOfYear(S, dateString) == \E r \in S : StartsWith(dateString, KeyOf(r) \o Dash)

\* C25: the flow's test of the daily report count sends it to the rollover exactly
\* when the count is RolloverCount or more; the rollover generates the yearly
\* report of the report's year, then adds it to yearlyReports, then clears
\* dailyReports, so that a flow finishing after a rollover leaves the daily store
\* empty and a report of that year in the yearly store; below the count the flow
\* finishes without touching a store.
C25_YearlyRollover ==
    [][\A f \in Flows : FlowSteps(f) =>
          LET rolls == flow'[f].reportCount >= RolloverCount
          IN /\ flow[f].pc = "count" =>
                    /\ flow'[f].reportCount = Cardinality(stores[DAILY_REPORTS_STORE])
                    /\ flow'[f].pc = IF rolls THEN "yearly" ELSE "done"
                    /\ stores' = stores
             /\ flow'[f].pc = "addYearly" =>
                    /\ flow[f].pc = "yearly"
                    /\ StartsWith(flow[f].dateString, flow'[f].yearlyReport.id \o Dash)
                    /\ stores' = stores
             /\ flow'[f].pc = "clear" =>
                    /\ flow[f].pc = "addYearly"
                    /\ stores' = [stores EXCEPT ![YEARLY_REPORTS_STORE] =
                                      @ \cup {flow[f].yearlyReport}]
             /\ (flow'[f].pc = "done" /\ rolls) =>
                    /\ flow[f].pc = "clear"
                    /\ stores'[DAILY_REPORTS_STORE] = {}
                    /\ HasReportOfYear(stores'[YEARLY_REPORTS_STORE], flow[f].dateString)
                    /\ stores'[YEARLY_REPORTS_STORE] = stores[YEARLY_REPORTS_STORE]]_vars

\* one flow has finished after a rollover that removed daily reports, another has
\* finished below the count
C25_Witness ==
    /\ \E f \in Flows :
           /\ flow[f].pc = "done"
           /\ flow[f].reportCount >= RolloverCount
           /\ flow[f].removed # {}
           /\ stores[YEARLY_REPORTS_STORE] = {flow[f].yearlyReport}
    /\ \E f \in Flows :
           /\ flow[f].pc = "done"
           /\ flow[f].reportCount < RolloverCount
    /\ stores[DAILY_REPORTS_STORE] # {}

C28_RolloverLosesNoData ==
    \A f \in Flows :
        flow[f].pc = "done" => flow[f].removed \subseteq flow[f].merged

----------------------------------------------------------------------------
(* update() with any update function (specification SpecRekey) *)

\* the update functions of SpecUpdate and one whose result has another id
AnyUpdateFns == UpdateFns \cup {"rekey"}

NextRekey ==
    \/ \E p \in 1..NumUpdaters : \E key \in UpdateKeys : \E fn \in AnyUpdateFns :
           UpdateGet(p, DAILY_REPORTS_STORE, key, fn)
    \/ \E p \in 1..NumUpdaters : UpdatePut(p)

SpecRekey == InitUpdate /\ [][NextRekey]_vars

\* C29: when update(store, key, updateFn) resolves and the record under key is still
\* the one it read, the store has the keys it had, the record under key is
\* updateFn(the record read) and every other record is as it was.
C29_UpdateFrame ==
    [][\A p \in 1..NumUpdaters :
          (upd[p].pc = "got" /\ upd'[p].pc = "resolved"
              /\ StoreGet(stores[upd[p].store], upd[p].key) = upd[p].currentValue)
          => LET before == stores[upd[p].store]
                 after == stores'[upd[p].store]
             IN /\ { KeyOf(r) : r \in after } = { KeyOf(r) : r \in before }
                /\ StoreGet(after, upd[p].key) = ApplyFn(upd[p].fn, upd[p].currentValue)
                /\ \A r \in before : KeyOf(r) # upd[p].key => r \in after]_vars

----------------------------------------------------------------------------
(* TimerSystem: the interval and work popups (specification SpecTimer) *)

\* the fields of `timer` are the component's state (isRunning, resetKey,
\* showIntervalPopup, showWorkPopup, pendingWorkPopup) and localStorage's
\* "workDuration".  history: workDue tells that, since the last reset, the work timer
\* signalled completion or isWorkTimerComplete() held at an interval completion.
\* A handler reads the state of the render it belongs to and its set-calls are
\* applied together, the last call for a field winning.

\* Number.parseInt(localStorage.getItem("workDuration") || "0") <= 0
isWorkTimerComplete == timer.workDuration <= 0

\* the work timer stores its remaining duration: localStorage "workDuration"
StoreWorkDuration(duration) ==
    /\ timer.workDuration # duration
    /\ timer' = [timer EXCEPT !.workDuration = duration]
    /\ UNCHANGED <<stores, last, upd, cleanup, db, live, calls, opened, call, obs, doc,
                   imp, flow>>

\* onToggle / the Start-Stop button: setIsRunning(!isRunning)
Toggle ==
    /\ timer' = [timer EXCEPT !.isRunning = ~timer.isRunning]
    /\ UNCHANGED <<stores, last, upd, cleanup, db, live, calls, opened, call, obs, doc,
                   imp, flow>>

\* handleIntervalComplete, the onComplete of the interval TimerCircle, which calls
\* it when its time is up while isRunning
handleIntervalComplete ==
    /\ timer.isRunning
    /\ timer' = [timer EXCEPT !.isRunning = FALSE,
                              !.showIntervalPopup = TRUE,
                              !.pendingWorkPopup = isWorkTimerComplete \/ @,
                              !.workDue = isWorkTimerComplete \/ @]
    /\ UNCHANGED <<stores, last, upd, cleanup, db, live, calls, opened, call, obs, doc,
                   imp, flow>>

\* handleWorkComplete, the onComplete of the work TimerCircle
handleWorkComplete ==
    /\ timer.isRunning
    /\ timer' = [timer EXCEPT !.isRunning = FALSE,
                              !.showWorkPopup = ~timer.showIntervalPopup \/ @,
                              !.pendingWorkPopup = timer.showIntervalPopup \/ @,
                              !.workDue = TRUE]
    /\ UNCHANGED <<stores, last, upd, cleanup, db, live, calls, opened, call, obs, doc,
                   imp, flow>>

\* handleIntervalPopupClose, the onClose of the open interval popup:
\* setPendingWorkPopup(true) comes before the test of pendingWorkPopup, which
\* reads the render's value
handleIntervalPopupClose ==
    /\ timer.showIntervalPopup
    /\ timer' = [timer EXCEPT !.showIntervalPopup = FALSE,
                              !.isRunning = TRUE,
                              !.showWorkPopup = timer.pendingWorkPopup \/ @,
                              !.pendingWorkPopup = ~timer.pendingWorkPopup]
    /\ UNCHANGED <<stores, last, upd, cleanup, db, live, calls, opened, call, obs, doc,
                   imp, flow>>

\* handleWorkPopupClose, the onClose of the open work popup
handleWorkPopupClose ==
    /\ timer.showWorkPopup
    /\ timer' = [timer EXCEPT !.showWorkPopup = FALSE]
    /\ UNCHANGED <<stores, last, upd, cleanup, db, live, calls, opened, call, obs, doc,
                   imp, flow>>

\* handleReset
handleReset ==
    /\ timer.resetKey < MaxResets
    /\ timer' = [timer EXCEPT !.isRunning = FALSE,
                              !.showIntervalPopup = FALSE,
                              !.showWorkPopup = FALSE,
                              !.pendingWorkPopup = FALSE,
                              !.resetKey = @ + 1,
                              !.workDue = FALSE]
    /\ UNCHANGED <<stores, last, upd, cleanup, db, live, calls, opened, call, obs, doc,
                   imp, flow>>

\* the component as mounted, with any stored work duration
InitTimer ==
    /\ stores = [s \in StoreNames |-> {}]
    /\ last = NoOutcome
    /\ upd = IdleUpdaters
    /\ cleanup = IdleCleanup
    /\ db = 1
    /\ live = {1}
    /\ calls = IdleCalls
    /\ opened = 1
    /\ call = IdleCall
    /\ obs = NoObserver
    /\ doc = NoDoc
    /\ imp = IdleImport
    /\ flow = IdleFlows
    /\ timer \in { [IdleTimer EXCEPT !.workDuration = duration] :
                      duration \in 0..MaxDuration }

NextTimer ==
    \/ \E duration \in 0..MaxDuration : StoreWorkDuration(duration)
    \/ Toggle
    \/ handleIntervalComplete
    \/ handleWorkComplete
    \/ handleIntervalPopupClose
    \/ handleWorkPopupClose
    \/ handleReset

SpecTimer == InitTimer /\ [][NextTimer]_vars

\* C30: the work popup opens only in a step after which, since the last reset, the
\* work timer has signalled completion or isWorkTimerComplete() held at an interval
\* completion.
C30_WorkPopupOnlyWhenWorkDue ==
    [][(timer'.showWorkPopup /\ ~timer.showWorkPopup) => timer'.workDue]_vars

=============================================================================
